---------------------------- MODULE Spec2Model ----------------------------
(***************************************************************************)
(* A model of the presentation analysis engine of aura-lesson-weaver:      *)
(*   - the slide classifier of services/activityTypeDetection.ts,          *)
(*   - the per-file analysis and the corpus aggregation of                 *)
(*     services/pptAnalysisService.ts,                                     *)
(*   - the corpus run of components/CorpusAnalyzer.tsx and the store of    *)
(*     services/analysisDataStore.ts.                                      *)
(* Text is kept as TLA+ strings; includes, trim and toLowerCase are        *)
(* computed character by character.                                        *)
(***************************************************************************)
EXTENDS Integers, Sequences, FiniteSets, TLC

(***************************************************************************)
(* JavaScript string operations                                            *)
(***************************************************************************)

UpperLetters == "ABCDEFGHIJKLMNOPQRSTUVWXYZ"

LowerLetters == "abcdefghijklmnopqrstuvwxyz"

\* The i-th character of s, as a one-character string (String.prototype.charAt).
charAt(s, i) == SubSeq(s, i, i)

\* The lower-case letter of every upper-case letter.
lowerOf == [c \in {charAt(UpperLetters, i) : i \in 1..Len(UpperLetters)} |->
               charAt(LowerLetters, CHOOSE i \in 1..Len(UpperLetters) : charAt(UpperLetters, i) = c)]

\* The upper-case letter of every lower-case letter.
upperOf == [c \in {charAt(LowerLetters, i) : i \in 1..Len(LowerLetters)} |->
               charAt(UpperLetters, CHOOSE i \in 1..Len(LowerLetters) : charAt(LowerLetters, i) = c)]

\* One character lower-cased.
lowerChar(c) == IF c \in DOMAIN lowerOf THEN lowerOf[c] ELSE c

\* One character upper-cased.
upperChar(c) == IF c \in DOMAIN upperOf THEN upperOf[c] ELSE c

RECURSIVE toLowerCase(_)
\* String.prototype.toLowerCase
toLowerCase(s) ==
    IF s = "" THEN "" ELSE lowerChar(charAt(s, 1)) \o toLowerCase(SubSeq(s, 2, Len(s)))

\* Whitespace as String.prototype.trim sees it (the blank is the only one the inputs use).
isSpace(c) == c = " "

RECURSIVE trimStart(_)
trimStart(s) ==
    IF s # "" /\ isSpace(charAt(s, 1)) THEN trimStart(SubSeq(s, 2, Len(s))) ELSE s

RECURSIVE trimEnd(_)
trimEnd(s) ==
    IF s # "" /\ isSpace(charAt(s, Len(s))) THEN trimEnd(SubSeq(s, 1, Len(s) - 1)) ELSE s

\* String.prototype.trim
trim(s) == trimEnd(trimStart(s))

\* String.prototype.includes: k occurs in s as a substring (the empty k always does).
includes(s, k) ==
    \E i \in 0..(Len(s) - Len(k)) : SubSeq(s, i + 1, i + Len(k)) = k

(***************************************************************************)
(* services/activityTypeDetection.ts: the classification tables            *)
(***************************************************************************)

ACTIVITY_PATTERNS == <<
    [keywords |-> <<"objective", "goal", "aim", "by the end", "will be able", "learning outcomes">>,
     category |-> "Learning Objectives", priority |-> 10],
    [keywords |-> <<"welcome", "introduction", "warm up", "ice breaker", "getting started", "let's begin">>,
     category |-> "Introduction", priority |-> 10],
    [keywords |-> <<"vocabulary", "new words", "key terms", "lexis", "word study", "meaning">>,
     category |-> "Vocabulary Development", priority |-> 9],
    [keywords |-> <<"grammar", "structure", "language point", "tense", "syntax", "form">>,
     category |-> "Grammar Focus", priority |-> 9],
    [keywords |-> <<"pronunciation", "phonetics", "sounds", "intonation", "stress", "accent">>,
     category |-> "Pronunciation Practice", priority |-> 9],
    [keywords |-> <<"matching", "match", "pair up", "connect", "link">>,
     category |-> "Matching Activities", priority |-> 8],
    [keywords |-> <<"fill in", "complete", "gap fill", "blank", "missing", "choose">>,
     category |-> "Gap Fill Activities", priority |-> 8],
    [keywords |-> <<"role play", "roleplay", "act out", "scenario", "dialogue", "conversation">>,
     category |-> "Role Play", priority |-> 8],
    [keywords |-> <<"discussion", "talk about", "share", "debate", "opinion", "think">>,
     category |-> "Discussion Activities", priority |-> 8],
    [keywords |-> <<"listening", "audio", "hear", "sound", "listen to">>,
     category |-> "Listening Activities", priority |-> 8],
    [keywords |-> <<"reading", "text", "passage", "article", "read">>,
     category |-> "Reading Activities", priority |-> 8],
    [keywords |-> <<"writing", "write", "compose", "essay", "paragraph">>,
     category |-> "Writing Activities", priority |-> 8],
    [keywords |-> <<"speaking", "present", "tell", "explain", "describe">>,
     category |-> "Speaking Activities", priority |-> 8],
    [keywords |-> <<"practice", "exercise", "drill", "try this", "activity", "task">>,
     category |-> "Practice Activities", priority |-> 7],
    [keywords |-> <<"game", "quiz", "competition", "challenge", "play">>,
     category |-> "Interactive Games", priority |-> 7],
    [keywords |-> <<"group work", "teamwork", "collaborate", "together", "pairs">>,
     category |-> "Collaborative Learning", priority |-> 7],
    [keywords |-> <<"test", "exam", "assessment", "check", "evaluate">>,
     category |-> "Assessment", priority |-> 8],
    [keywords |-> <<"review", "summary", "recap", "what we learned", "consolidation">>,
     category |-> "Review & Summary", priority |-> 8],
    [keywords |-> <<"feedback", "correction", "error", "mistake", "check your work">>,
     category |-> "Feedback & Correction", priority |-> 7],
    [keywords |-> <<"presentation", "explanation", "demonstration", "show", "example">>,
     category |-> "Content Presentation", priority |-> 6],
    [keywords |-> <<"homework", "assignment", "next time", "for next class", "take home">>,
     category |-> "Homework Assignment", priority |-> 9],
    [keywords |-> <<"conclusion", "summary", "wrap up", "ending", "goodbye", "thank you">>,
     category |-> "Lesson Conclusion", priority |-> 8]
>>

\* The entries in insertion order, as Object.entries walks them.
TITLE_CATEGORY_MAP == <<
    <<"warm up", "Introduction">>,
    <<"ice breaker", "Introduction">>,
    <<"getting to know", "Introduction">>,
    <<"objectives", "Learning Objectives">>,
    <<"learning objectives", "Learning Objectives">>,
    <<"goals", "Learning Objectives">>,
    <<"new vocabulary", "Vocabulary Development">>,
    <<"vocabulary", "Vocabulary Development">>,
    <<"word bank", "Vocabulary Development">>,
    <<"grammar focus", "Grammar Focus">>,
    <<"grammar", "Grammar Focus">>,
    <<"listening", "Listening Activities">>,
    <<"reading", "Reading Activities">>,
    <<"speaking", "Speaking Activities">>,
    <<"writing", "Writing Activities">>,
    <<"discussion", "Discussion Activities">>,
    <<"group work", "Collaborative Learning">>,
    <<"pair work", "Collaborative Learning">>,
    <<"practice", "Practice Activities">>,
    <<"exercise", "Practice Activities">>,
    <<"activity", "Practice Activities">>,
    <<"game", "Interactive Games">>,
    <<"quiz", "Interactive Games">>,
    <<"review", "Review & Summary">>,
    <<"homework", "Homework Assignment">>,
    <<"conclusion", "Lesson Conclusion">>
>>

(***************************************************************************)
(* The texts the model classifies                                          *)
(***************************************************************************)

\* The slide titles classified.
Titles == {"", "  ", "Warm Up Activity", "Vocabulary: Animals", "Summary",
           "Sounds and Stress", "My Holiday", " Tell a story ", "my day", "Hi",
           "the wide blue sky over a small town by the hills.",
           "the wide blue sky over a small town by the hills.."}

\* The slide texts classified.
Texts == {"", "blue sky", "let's practice", "match the animal words to their pictures",
          "Let's discuss your opinions on this topic", "summary of the lesson",
          "read the text and write an essay", "quiz and game show"}

\* Every string the keyword match is applied to: the texts, and the titles
\* trimmed and lower-cased.
MatchedTexts == Texts \cup {toLowerCase(trim(t)) : t \in Titles}

(***************************************************************************)
(* services/activityTypeDetection.ts: the classifier                       *)
(***************************************************************************)

\* pattern.keywords.filter(keyword => lowerText.includes(keyword.toLowerCase())).length
matchCount(pattern, lowerText) ==
    Cardinality({k \in 1..Len(pattern.keywords) :
                    includes(lowerText, toLowerCase(pattern.keywords[k]))})

RECURSIVE bestMatchLastWins(_, _, _)
\* bestMatchFrom with >= for >: among equal scores the last registered category wins.
bestMatchLastWins(i, lowerText, bestMatch) ==
    IF i > Len(ACTIVITY_PATTERNS) THEN bestMatch
    ELSE LET pattern == ACTIVITY_PATTERNS[i]
             n       == matchCount(pattern, lowerText)
             score   == n * pattern.priority
         IN  IF n > 0 /\ score >= bestMatch.score
             THEN bestMatchLastWins(i + 1, lowerText, [category |-> pattern.category, score |-> score])
             ELSE bestMatchLastWins(i + 1, lowerText, bestMatch)

RECURSIVE bestMatchFrom(_, _, _)
\* The loop of findBestPatternMatch from pattern i on, bestMatch being the best so far.
bestMatchFrom(i, lowerText, bestMatch) ==
    IF i > Len(ACTIVITY_PATTERNS) THEN bestMatch
    ELSE LET pattern == ACTIVITY_PATTERNS[i]
             n       == matchCount(pattern, lowerText)
             score   == n * pattern.priority
         IN  IF n > 0 /\ score > bestMatch.score
             THEN bestMatchFrom(i + 1, lowerText, [category |-> pattern.category, score |-> score])
             ELSE bestMatchFrom(i + 1, lowerText, bestMatch)

\* The body of findBestPatternMatch.
bestPatternMatch(text) ==
    bestMatchFrom(1, toLowerCase(text), [category |-> "Content Slide", score |-> 0])

\* bestPatternMatch tabulated once for the texts of the model.
bestPatternMatchTable == [text \in MatchedTexts |-> bestPatternMatch(text)]

findBestPatternMatch(text) ==
    IF text \in MatchedTexts THEN bestPatternMatchTable[text] ELSE bestPatternMatch(text)

hasHint(layoutHints, h) == \E k \in 1..Len(layoutHints) : layoutHints[k] = h

inferFromLayout(slideData) ==
    IF hasHint(slideData.layoutHints, "bullets") /\ Len(slideData.textElements) > 3
        THEN "Practice Activities"
    ELSE IF hasHint(slideData.layoutHints, "table")
        THEN "Matching Activities"
    ELSE IF slideData.hasImages /\ Len(slideData.textElements) < 3
        THEN "Content Presentation"
    ELSE IF hasHint(slideData.layoutHints, "text-heavy")
        THEN "Reading Activities"
    ELSE "Content Slide"

inferFromPosition(slideData) ==
    IF slideData.slideNumber = 1 THEN "Introduction" ELSE "Content Slide"

\* Strategy 1: the indices of the title map entries whose phrase occurs in the title.
titleMapHits(cleanTitle) ==
    {k \in 1..Len(TITLE_CATEGORY_MAP) : includes(cleanTitle, TITLE_CATEGORY_MAP[k][1])}

minOf(S) == CHOOSE m \in S : \A k \in S : m <= k

\* The title as it is.
titleUnchanged(title) == title

\* Fallback: the title with its first character upper-cased.
titleAsCategory(title) ==
    upperChar(charAt(title, 1)) \o SubSeq(title, 2, Len(title))

\* categorizeActivityFromRawSlide with the content analysis (strategy 3) tried before
\* the title (strategies 1 and 2).
categorizeContentFirst(slideData) ==
    LET cleanTitle   == toLowerCase(trim(slideData.title))
        hits         == titleMapHits(cleanTitle)
        titleMatch   == findBestPatternMatch(cleanTitle)
        contentMatch == findBestPatternMatch(slideData.allText)
    IN  IF contentMatch.category # "Content Slide" THEN contentMatch.category
        ELSE IF hits # {} THEN TITLE_CATEGORY_MAP[minOf(hits)][2]
        ELSE IF cleanTitle # "" /\ titleMatch.category # "Content Slide" THEN titleMatch.category
        ELSE IF inferFromLayout(slideData) # "Content Slide" THEN inferFromLayout(slideData)
        ELSE IF inferFromPosition(slideData) # "Content Slide" THEN inferFromPosition(slideData)
        ELSE IF slideData.title # "" /\ Len(slideData.title) > 2 /\ Len(slideData.title) < 50
            THEN titleAsCategory(slideData.title)
        ELSE "Content Slide"

\* categorizeActivityFromRawSlide with the layout inference (strategy 4) tried before
\* the content analysis (strategy 3).
categorizeLayoutFirst(slideData) ==
    LET cleanTitle   == toLowerCase(trim(slideData.title))
        hits         == titleMapHits(cleanTitle)
        titleMatch   == findBestPatternMatch(cleanTitle)
        contentMatch == findBestPatternMatch(slideData.allText)
    IN  IF hits # {} THEN TITLE_CATEGORY_MAP[minOf(hits)][2]
        ELSE IF cleanTitle # "" /\ titleMatch.category # "Content Slide" THEN titleMatch.category
        ELSE IF inferFromLayout(slideData) # "Content Slide" THEN inferFromLayout(slideData)
        ELSE IF contentMatch.category # "Content Slide" THEN contentMatch.category
        ELSE IF inferFromPosition(slideData) # "Content Slide" THEN inferFromPosition(slideData)
        ELSE IF slideData.title # "" /\ Len(slideData.title) > 2 /\ Len(slideData.title) < 50
            THEN titleAsCategory(slideData.title)
        ELSE "Content Slide"

categorizeActivityFromRawSlide(slideData) ==
    LET cleanTitle     == toLowerCase(trim(slideData.title))
        hits           == titleMapHits(cleanTitle)
        titleMatch     == findBestPatternMatch(cleanTitle)
        contentMatch   == findBestPatternMatch(slideData.allText)
        layoutCategory == inferFromLayout(slideData)
        positionCategory == inferFromPosition(slideData)
    IN  IF hits # {} THEN TITLE_CATEGORY_MAP[minOf(hits)][2]
        ELSE IF cleanTitle # "" /\ titleMatch.category # "Content Slide" THEN titleMatch.category
        ELSE IF contentMatch.category # "Content Slide" THEN contentMatch.category
        ELSE IF layoutCategory # "Content Slide" THEN layoutCategory
        ELSE IF positionCategory # "Content Slide" THEN positionCategory
        ELSE IF slideData.title # "" /\ Len(slideData.title) > 2 /\ Len(slideData.title) < 50
            THEN titleAsCategory(slideData.title)
        ELSE "Content Slide"

\* The (title, allText) entry point: a minimal slide record around the two strings.
categorizeActivityType(slideTitle, allText) ==
    categorizeActivityFromRawSlide(
        [slideNumber  |-> 1,
         textElements |-> <<slideTitle>>,
         title        |-> slideTitle,
         allText      |-> allText,
         hasImages    |-> FALSE,
         layoutHints  |-> <<>>])


(***************************************************************************)
(* services/pptAnalysisService.ts: the content type of a slide             *)
(***************************************************************************)

\* The keyword groups of determineContentType, in the order of its if statements.
CONTENT_TYPE_RULES == <<
    [keywords |-> <<"objective", "goal", "aim", "by the end">>, label |-> "Learning Objectives"],
    [keywords |-> <<"introduction", "welcome", "today we will", "warm up">>, label |-> "Introduction"],
    [keywords |-> <<"vocabulary", "new words", "key terms">>, label |-> "Vocabulary Introduction"],
    [keywords |-> <<"grammar", "structure", "language point">>, label |-> "Grammar Point"],
    [keywords |-> <<"practice", "exercise", "try this">>, label |-> "Practice Activity"],
    [keywords |-> <<"homework", "assignment", "next time", "for next class">>, label |-> "Homework/Conclusion"],
    [keywords |-> <<"review", "summary", "recap", "what we learned">>, label |-> "Review/Summary"]
>>

\* Whether one of the rule's keywords occurs in lowerText.
contentRuleApplies(rule, lowerText) ==
    \E k \in 1..Len(rule.keywords) : includes(lowerText, rule.keywords[k])

determineContentType(text) ==
    LET lowerText == toLowerCase(text)
        applying  == {r \in 1..Len(CONTENT_TYPE_RULES) :
                         contentRuleApplies(CONTENT_TYPE_RULES[r], lowerText)}
    IN  IF applying # {} THEN CONTENT_TYPE_RULES[minOf(applying)].label ELSE "Main Content"

(***************************************************************************)
(* JavaScript arrays, Sets and Maps. A Set is the sequence of its elements *)
(* in insertion order, a Map the sequence of its <<key, value>> entries in *)
(* insertion order.                                                        *)
(***************************************************************************)

contains(seq, x) == \E k \in 1..Len(seq) : seq[k] = x

RECURSIVE join(_, _)
\* Array.prototype.join
join(seq, sep) ==
    IF Len(seq) = 0 THEN ""
    ELSE IF Len(seq) = 1 THEN seq[1]
    ELSE seq[1] \o sep \o join(Tail(seq), sep)

RECURSIVE flatten(_)
\* The concatenation of a sequence of sequences.
flatten(seqs) == IF Len(seqs) = 0 THEN <<>> ELSE Head(seqs) \o flatten(Tail(seqs))

\* Set.prototype.add
setAdd(set, x) == IF contains(set, x) THEN set ELSE Append(set, x)

RECURSIVE setAddAll(_, _)
\* seq.forEach(x => set.add(x))
setAddAll(set, seq) ==
    IF Len(seq) = 0 THEN set ELSE setAddAll(setAdd(set, Head(seq)), Tail(seq))

\* [...new Set(seq)]
\* A spread that keeps every element, duplicates included.
keepDuplicates(seq) == seq

unique(seq) == setAddAll(<<>>, seq)

\* Array.prototype.slice(from, to), indices from 0, to exclusive.
slice(seq, from, to) ==
    SubSeq(seq, from + 1, IF to < Len(seq) THEN to ELSE Len(seq))

\* map.get(key) || 0
mapGetOrZero(map, key) ==
    IF \E k \in 1..Len(map) : map[k][1] = key
    THEN map[CHOOSE k \in 1..Len(map) : map[k][1] = key][2]
    ELSE 0

\* map.set(key, value)
mapSet(map, key, value) ==
    IF \E k \in 1..Len(map) : map[k][1] = key
    THEN [k \in 1..Len(map) |-> IF map[k][1] = key THEN <<key, value>> ELSE map[k]]
    ELSE Append(map, <<key, value>>)

(***************************************************************************)
(* services/pptAnalysisService.ts: one slide                               *)
(*                                                                         *)
(* A slide document is [bgColor, nodes]; a node is a shape (kind "sp") or  *)
(* a graphic frame (kind "frame") with ph, the type of its placeholder (""  *)
(* for none), y, the vertical offset of its transform (0 for none), and    *)
(* paras, the paragraphs of its text body, each a sequence of runs         *)
(* [t, sz, typeface]: the text, the sz attribute (0 for none, in 1/100 pt) *)
(* and the typeface attribute ("" for none) of the run.                    *)
(***************************************************************************)

\* The entries in insertion order, as Object.entries walks them.
ACTIVITY_KEYWORDS == <<
    <<"reading", "Reading">>,
    <<"question", "Question">>,
    <<"terms", "Terms">>,
    <<"matching", "Matching">>,
    <<"fill in the blanks", "Fill in the Blanks">>,
    <<"fitb", "Fill in the Blanks">>,
    <<"sentences", "Sentences">>,
    <<"describing images", "Describing Images">>,
    <<"vocabulary", "Vocabulary">>,
    <<"discussion", "Discussion">>,
    <<"warm up", "Warm-up">>,
    <<"warm-up", "Warm-up">>,
    <<"pair work", "Pair Work">>,
    <<"group work", "Group Work">>,
    <<"role play", "Role Play">>,
    <<"listening", "Listening">>,
    <<"writing", "Writing">>,
    <<"speaking", "Speaking">>,
    <<"grammar", "Grammar">>,
    <<"practice", "Practice">>,
    <<"exercise", "Exercise">>,
    <<"game", "Game">>,
    <<"homework", "Homework">>,
    <<"review", "Review">>,
    <<"brainstorm", "Brainstorming">>,
    <<"presentation", "Presentation">>
>>

\* The characters of the labels in the order of their UTF-16 code units.
CodeUnitOrder == " -./0123456789ABCDEFGHIJKLMNOPQRSTUVWXYZ_abcdefghijklmnopqrstuvwxyz"

\* The place of a character in CodeUnitOrder.
codeUnit(c) == CHOOSE i \in 1..Len(CodeUnitOrder) : charAt(CodeUnitOrder, i) = c

RECURSIVE stringLess(_, _)
\* a < b on strings: the comparison of the default Array.prototype.sort.
stringLess(a, b) ==
    IF b = "" THEN FALSE
    ELSE IF a = "" THEN TRUE
    ELSE IF charAt(a, 1) = charAt(b, 1) THEN stringLess(SubSeq(a, 2, Len(a)), SubSeq(b, 2, Len(b)))
    ELSE codeUnit(charAt(a, 1)) < codeUnit(charAt(b, 1))

RECURSIVE sortStrings(_)
\* Array.prototype.sort() of strings: a stable insertion of each element in turn.
sortStrings(seq) ==
    IF Len(seq) = 0 THEN <<>>
    ELSE LET sorted == sortStrings(SubSeq(seq, 1, Len(seq) - 1))
             x      == seq[Len(seq)]
             before == Cardinality({k \in 1..Len(sorted) : ~stringLess(x, sorted[k])})
         IN  SubSeq(sorted, 1, before) \o <<x>> \o SubSeq(sorted, before + 1, Len(sorted))

RECURSIVE foundActivitiesFrom(_, _, _)
\* The keyword loop of extractActivityTypesFromSlide from entry i on.
foundActivitiesFrom(i, combinedText, foundActivities) ==
    IF i > Len(ACTIVITY_KEYWORDS) THEN foundActivities
    ELSE foundActivitiesFrom(i + 1, combinedText,
            IF includes(combinedText, toLowerCase(ACTIVITY_KEYWORDS[i][1]))
            THEN setAdd(foundActivities, ACTIVITY_KEYWORDS[i][2])
            ELSE foundActivities)

\* seq without x.
without(seq, x) == LET keep(e) == e # x IN SelectSeq(seq, keep)

\* extractActivityTypesFromSlide without the rule for copyright slides.
extractActivityTypesKeepingReading(slideTitle, allText) ==
    LET sorted(activities) == IF Len(activities) > 0 THEN activities ELSE <<"Content Slide">>
    IN  sorted(sortStrings(foundActivitiesFrom(1, toLowerCase(slideTitle \o " " \o allText), <<>>)))

\* The keyword based extractActivityTypesFromSlide that analyzeSlideContent calls.
extractActivityTypesFromSlide(slideTitle, allText) ==
    LET combinedText == toLowerCase(slideTitle \o " " \o allText)
        found        == foundActivitiesFrom(1, combinedText, <<>>)
        kept         == IF includes(combinedText, "copyright") /\ includes(combinedText, "lessonspeak")
                        THEN without(found, "Reading") ELSE found
        activities   == sortStrings(kept)
    IN  IF Len(activities) > 0 THEN activities ELSE <<"Content Slide">>

\* The runs of a node, paragraph after paragraph.
runsOf(node) == flatten(node.paras)

\* doc.querySelectorAll('a\\:t, t'): the text of every run of the document, in document order.
allRuns(doc) == flatten([k \in 1..Len(doc.nodes) |-> runsOf(doc.nodes[k])])

\* parseInt(sizeAttr) / 100, or 12, kept in 1/100 pt.
fontSizeOf(run) == IF run.sz # 0 THEN run.sz ELSE 1200

\* Strategy 1: the text of the first title placeholder shape that has text.
placeholderTitleOf(node) ==
    LET trimmed     == [k \in 1..Len(runsOf(node)) |-> trim(runsOf(node)[k].t)]
        nonEmpty(x) == x # ""
    IN  trim(join(SelectSeq(trimmed, nonEmpty), " "))

titleFromPlaceholders(doc) ==
    LET titled == {k \in 1..Len(doc.nodes) :
                      /\ doc.nodes[k].kind = "sp"
                      /\ doc.nodes[k].ph \in {"title", "ctrTitle"}
                      /\ placeholderTitleOf(doc.nodes[k]) # ""}
    IN  IF titled = {} THEN "" ELSE placeholderTitleOf(doc.nodes[minOf(titled)])

\* Strategy 2: the candidates of one paragraph: its runs with a text of 2 characters or
\* more, then the first text of the paragraph once more, with the default size.
candidatesOfParagraph(para, topPosition) ==
    LET candidate(run) == [text |-> trim(run.t), fontSize |-> fontSizeOf(run), topPosition |-> topPosition]
        longEnough(c)  == Len(c.text) >= 2
        ofRuns         == SelectSeq([k \in 1..Len(para) |-> candidate(para[k])], longEnough)
        directText     == IF Len(para) > 0 /\ Len(trim(para[1].t)) >= 2
                          THEN <<[text |-> trim(para[1].t), fontSize |-> 1200, topPosition |-> topPosition]>>
                          ELSE <<>>
    IN  ofRuns \o directText

candidateTextsOf(doc) ==
    flatten([k \in 1..Len(doc.nodes) |->
        IF doc.nodes[k].kind = "sp"
        THEN flatten([j \in 1..Len(doc.nodes[k].paras) |->
                        candidatesOfParagraph(doc.nodes[k].paras[j], doc.nodes[k].y)])
        ELSE <<>>])

\* The comparator of the candidate sort: font sizes more than 2 pt apart decide, larger
\* first; otherwise the higher shape comes first.
compareCandidates(a, b) ==
    IF a.fontSize - b.fontSize > 200 \/ b.fontSize - a.fontSize > 200
    THEN b.fontSize - a.fontSize
    ELSE a.topPosition - b.topPosition

RECURSIVE insertCandidate(_, _)
\* x inserted from the right into a sorted sequence.
insertCandidate(sorted, x) ==
    IF Len(sorted) > 0 /\ compareCandidates(sorted[Len(sorted)], x) > 0
    THEN Append(insertCandidate(SubSeq(sorted, 1, Len(sorted) - 1), x), sorted[Len(sorted)])
    ELSE Append(sorted, x)

RECURSIVE sortCandidates(_)
\* candidateTexts.sort(compare): a stable insertion sort.
sortCandidates(seq) ==
    IF Len(seq) = 0 THEN <<>>
    ELSE insertCandidate(sortCandidates(SubSeq(seq, 1, Len(seq) - 1)), seq[Len(seq)])

\* Strategy 3: the first text of more than 2 and fewer than 100 characters.
firstSignificantText(doc) ==
    LET significant == {k \in 1..Len(allRuns(doc)) :
                            Len(trim(allRuns(doc)[k].t)) > 2 /\ Len(trim(allRuns(doc)[k].t)) < 100}
    IN  IF significant = {} THEN "" ELSE trim(allRuns(doc)[minOf(significant)].t)

slideTitleOf(doc) ==
    IF titleFromPlaceholders(doc) # "" THEN titleFromPlaceholders(doc)
    ELSE IF Len(candidateTextsOf(doc)) > 0 THEN sortCandidates(candidateTextsOf(doc))[1].text
    ELSE firstSignificantText(doc)

\* The text elements of the slide: one for every text of more than 1 character, index
\* being the place of the text among all texts, from 0.
textElementsOf(doc) ==
    LET element(k) == [type       |-> "text",
                       y          |-> (k - 1) * 20,
                       content    |-> trim(allRuns(doc)[k].t),
                       fontSize   |-> fontSizeOf(allRuns(doc)[k]),
                       fontFamily |-> IF allRuns(doc)[k].typeface # "" THEN allRuns(doc)[k].typeface
                                      ELSE "Arial"]
        counted(e) == Len(e.content) > 1
    IN  SelectSeq([k \in 1..Len(allRuns(doc)) |-> element(k)], counted)

RECURSIVE allTextOf(_)
\* allText += textContent.toLowerCase() + ' ' for every text element.
allTextOf(elements) ==
    IF Len(elements) = 0 THEN ""
    ELSE toLowerCase(Head(elements).content) \o " " \o allTextOf(Tail(elements))

\* Every element is a text element: images are never collected.
determineLayoutType(elements) ==
    LET isText(e)  == e.type = "text"
        isImage(e) == e.type = "image"
        nText      == Len(SelectSeq(elements, isText))
        nImage     == Len(SelectSeq(elements, isImage))
    IN  IF nText = 1 /\ nImage = 0 THEN "Title Slide"
        ELSE IF nText > 3 /\ nImage = 0 THEN "Text Heavy"
        ELSE IF nImage > 0 /\ nText > 0 THEN "Mixed Content"
        ELSE IF nImage > 1 THEN "Visual Focused"
        ELSE "Standard Layout"

determineTitlePosition(elements) ==
    IF Len(elements) = 0 THEN "none"
    ELSE IF elements[1].y < 100 THEN "top"
    ELSE IF elements[1].y > 300 THEN "bottom"
    ELSE "center"

\* The elements that are no text or not the first element.
determineContentLayout(elements) ==
    LET nContent == Cardinality({k \in 1..Len(elements) : elements[k].type # "text" \/ k > 1})
    IN  IF nContent = 0 THEN "text-only"
        ELSE IF nContent = 1 THEN "single-focus"
        ELSE "multi-element"

extractBackgroundColor(doc) == IF doc.bgColor # "" THEN "#" \o doc.bgColor ELSE "#FFFFFF"

textRun(t, sz, typeface) == [t |-> t, sz |-> sz, typeface |-> typeface]

shape(ph, y, paras) == [kind |-> "sp", ph |-> ph, y |-> y, paras |-> paras]

\* A slide without any text: also what DOMParser makes of XML that is not a slide.
BlankSlide == [bgColor |-> "", nodes |-> <<>>]

\* A title placeholder and one body text.
WarmUpSlide ==
    [bgColor |-> "",
     nodes   |-> <<shape("title", 0, <<<<textRun("Warm Up", 4400, "Calibri")>>>>),
                   shape("body", 1, <<<<textRun("Let's discuss your opinions", 0, "")>>>>)>>]

\* Four texts on a coloured background, the last one the copyright line.
ReadingSlide ==
    [bgColor |-> "FFF2CC",
     nodes   |-> <<shape("", 0, <<<<textRun("Reading", 3200, "Georgia")>>>>),
                   shape("", 1, <<<<textRun("Read the text", 1800, "")>>,
                                   <<textRun("Answer the questions", 1800, "")>>>>),
                   shape("", 2, <<<<textRun("Copyright LessonSpeak", 1000, "")>>>>)>>]

\* The slide documents of the model.
SlideDocuments == {BlankSlide, WarmUpSlide, ReadingSlide}

\* The body of analyzeSlideContent.
slideAnalysisOf(doc, slideNumber) ==
    LET analysis(elements, allText, activityTypes) ==
            [slideNumber     |-> slideNumber,
             layout          |-> determineLayoutType(elements),
             backgroundColor |-> extractBackgroundColor(doc),
             elements        |-> elements,
             designPatterns  |-> [titlePosition  |-> determineTitlePosition(elements),
                                  contentLayout  |-> determineContentLayout(elements),
                                  imageAlignment |-> "none",
                                  colorScheme    |-> <<>>,
                                  fontHierarchy  |-> unique([k \in 1..Len(elements) |-> elements[k].fontFamily])],
             activityType    |-> IF Len(activityTypes) > 0 THEN join(activityTypes, ", ") ELSE "Content Slide",
             contentType     |-> determineContentType(allText)]
        withText(elements, slideTitle, allText) ==
            analysis(elements, allText, extractActivityTypesFromSlide(slideTitle, allText))
        withElements(elements, slideTitle) == withText(elements, slideTitle, allTextOf(elements))
    IN  withElements(textElementsOf(doc), slideTitleOf(doc))

\* slideAnalysisOf tabulated once for the slide documents of the model.
slideAnalysisTable == [doc \in SlideDocuments |-> slideAnalysisOf(doc, 0)]

\* The slide number is copied to the result and has no other use.
analyzeSlideContent(doc, slideNumber) ==
    IF doc \in SlideDocuments THEN [slideAnalysisTable[doc] EXCEPT !.slideNumber = slideNumber]
    ELSE slideAnalysisOf(doc, slideNumber)

(***************************************************************************)
(* services/pptAnalysisService.ts: one file                                *)
(*                                                                         *)
(* An archive is [opens, openError, hasSlidesFolder, entries, themeFiles]. *)
(* entries are the entries of ppt/slides in the order slidesFolder.files   *)
(* lists them, each [name, dir, read, readError, doc]: read is what        *)
(* file(name)?.async('text') does: "ok" (the XML in doc), "empty" (an      *)
(* empty text or no file: a falsy slideXml) or "throws" (the promise       *)
(* rejects with readError). themeFiles are the entries of ppt/theme, each  *)
(* [name, read, readError, vals], vals being the val attributes of the     *)
(* theme XML in document order.                                            *)
(***************************************************************************)

Digits == "0123456789"

isDigit(c) == \E i \in 1..Len(Digits) : charAt(Digits, i) = c

\* The value of a digit character.
digitValue(c) == (CHOOSE i \in 1..Len(Digits) : charAt(Digits, i) = c) - 1

\* String.prototype.endsWith
endsWith(s, suffix) ==
    Len(s) >= Len(suffix) /\ SubSeq(s, Len(s) - Len(suffix) + 1, Len(s)) = suffix

\* String.prototype.startsWith
startsWith(s, prefix) == Len(s) >= Len(prefix) /\ SubSeq(s, 1, Len(prefix)) = prefix

\* filename.match(/^slide\d+\.xml$/)
matchesSlideNumberXml(filename) ==
    /\ startsWith(filename, "slide")
    /\ endsWith(filename, ".xml")
    /\ Len(filename) > Len("slide") + Len(".xml")
    /\ \A i \in (Len("slide") + 1)..(Len(filename) - Len(".xml")) : isDigit(charAt(filename, i))

\* filename.match(/slide.*\.xml$/)
matchesSlideAnyXml(filename) ==
    /\ endsWith(filename, ".xml")
    /\ includes(SubSeq(filename, 1, Len(filename) - Len(".xml")), "slide")

\* The test of the first loop with its first pattern alone.
isNumberedSlideFile(entry) == ~entry.dir /\ matchesSlideNumberXml(entry.name)

\* The test of the first loop over slidesFolder.files.
isSlideFile(entry) ==
    /\ ~entry.dir
    /\ \/ matchesSlideNumberXml(entry.name)
       \/ matchesSlideAnyXml(entry.name)
       \/ (includes(entry.name, "slide") /\ endsWith(entry.name, ".xml"))

RECURSIVE parseDigits(_, _)
\* parseInt of a string of digits, acc being the value of the digits read so far.
parseDigits(s, acc) ==
    IF s = "" THEN acc ELSE parseDigits(SubSeq(s, 2, Len(s)), acc * 10 + digitValue(charAt(s, 1)))

\* parseInt(name.match(/\d+/)?.[0] || '0'): the first run of digits of the name, or 0.
slideNumberOfName(name) ==
    LET digitPlaces == {i \in 1..Len(name) : isDigit(charAt(name, i))}
    IN  IF digitPlaces = {} THEN 0
        ELSE LET first == minOf(digitPlaces)
                 last  == CHOOSE j \in first..Len(name) :
                              /\ \A i \in first..j : isDigit(charAt(name, i))
                              /\ (j = Len(name) \/ ~isDigit(charAt(name, j + 1)))
             IN  parseDigits(SubSeq(name, first, last), 0)

RECURSIVE insertSlideFileByName(_, _)
\* x inserted from the right into a sequence sorted by name, as the default sort does.
insertSlideFileByName(sorted, x) ==
    IF Len(sorted) > 0 /\ stringLess(x.name, sorted[Len(sorted)].name)
    THEN Append(insertSlideFileByName(SubSeq(sorted, 1, Len(sorted) - 1), x), sorted[Len(sorted)])
    ELSE Append(sorted, x)

RECURSIVE insertSlideFile(_, _)
\* x inserted from the right into a sequence sorted by slide number.
insertSlideFile(sorted, x) ==
    IF Len(sorted) > 0 /\ slideNumberOfName(sorted[Len(sorted)].name) - slideNumberOfName(x.name) > 0
    THEN Append(insertSlideFile(SubSeq(sorted, 1, Len(sorted) - 1), x), sorted[Len(sorted)])
    ELSE Append(sorted, x)

RECURSIVE sortSlideFiles(_)
\* slideFiles.sort((a, b) => numA - numB): stable.
sortSlideFiles(seq) ==
    IF Len(seq) = 0 THEN <<>>
    ELSE insertSlideFile(sortSlideFiles(SubSeq(seq, 1, Len(seq) - 1)), seq[Len(seq)])

\* The slide files of the folder: those that pass the test, or failing any, every .xml
\* file; sorted by number. The entries stand for their names.
locateSlideFiles(entries) ==
    LET isXml(entry) == ~entry.dir /\ endsWith(entry.name, ".xml")
        strict       == SelectSeq(entries, isSlideFile)
    IN  sortSlideFiles(IF Len(strict) = 0 THEN SelectSeq(entries, isXml) ELSE strict)

\* The slide pushed when parsing slide i throws.
failedSlide(i) ==
    [slideNumber     |-> i,
     layout          |-> "Unknown Layout",
     backgroundColor |-> "#FFFFFF",
     elements        |-> <<>>,
     designPatterns  |-> [titlePosition |-> "top", contentLayout |-> "standard",
                          imageAlignment |-> "none", colorScheme |-> <<>>, fontHierarchy |-> <<>>],
     activityType    |-> "Content Slide",
     contentType     |-> "Main Content"]

\* The slide pushed for file i when no slide at all was parsed.
placeholderSlide(i) == [failedSlide(i) EXCEPT !.layout = "Standard Layout"]

\* The design elements before the first slide.
noDesignElements ==
    [colors |-> <<>>, fonts |-> <<>>, layouts |-> <<>>, activityTypes |-> <<>>, contentTypes |-> <<>>]

\* The slide analysed and pushed, and the design elements with its patterns added.
addSlideAnalysis(slideAnalysis, slides, designElements) ==
    [slides |-> Append(slides, slideAnalysis),
     designElements |->
       [colors        |-> setAddAll(designElements.colors, slideAnalysis.designPatterns.colorScheme),
        fonts         |-> setAddAll(designElements.fonts, slideAnalysis.designPatterns.fontHierarchy),
        layouts       |-> mapSet(designElements.layouts, slideAnalysis.layout,
                                 mapGetOrZero(designElements.layouts, slideAnalysis.layout) + 1),
        activityTypes |-> IF slideAnalysis.activityType # ""
                          THEN setAdd(designElements.activityTypes, slideAnalysis.activityType)
                          ELSE designElements.activityTypes,
        contentTypes  |-> IF slideAnalysis.contentType # ""
                          THEN setAdd(designElements.contentTypes, slideAnalysis.contentType)
                          ELSE designElements.contentTypes]]

\* Slide file i analysed and pushed.
pushSlideAnalysis(slideFile, i, slides, designElements) ==
    addSlideAnalysis(analyzeSlideContent(slideFile.doc, i), slides, designElements)

\* The body of the slide loop with a slide file that throws passed over like an empty one.
parseOneSlideSkipFailed(slideFile, i, slides, designElements) ==
    IF slideFile.read \in {"throws", "empty"}
        THEN [slides |-> slides, designElements |-> designElements]
    ELSE pushSlideAnalysis(slideFile, i, slides, designElements)

\* The body of the slide loop for slide file i: the slides and design elements after it.
parseOneSlide(slideFile, i, slides, designElements) ==
    IF slideFile.read = "throws"
        THEN [slides |-> Append(slides, failedSlide(i)), designElements |-> designElements]
    ELSE IF slideFile.read = "empty"
        THEN [slides |-> slides, designElements |-> designElements]
    ELSE pushSlideAnalysis(slideFile, i, slides, designElements)

RECURSIVE parseSlidesFrom(_, _, _, _)
\* The slide loop from slide file i on.
parseSlidesFrom(i, slideFiles, slides, designElements) ==
    IF i > Len(slideFiles) THEN [slides |-> slides, designElements |-> designElements]
    ELSE LET next(after) == parseSlidesFrom(i + 1, slideFiles, after.slides, after.designElements)
         IN  next(parseOneSlide(slideFiles[i], i, slides, designElements))

\* The slide loop without the placeholder step that follows it.
parseSlidesWithoutPlaceholders(slideFiles) == parseSlidesFrom(1, slideFiles, <<>>, noDesignElements)

\* The slides and design elements after the loop and the placeholder step that follows it.
parseSlides(slideFiles) ==
    LET withPlaceholders(parsed) ==
            IF Len(parsed.slides) = 0 /\ Len(slideFiles) > 0
            THEN [slides |-> [i \in 1..Len(slideFiles) |-> placeholderSlide(i)],
                  designElements |-> [parsed.designElements EXCEPT
                                         !.activityTypes = <<"Content Slide">>,
                                         !.contentTypes = <<"Main Content">>]]
            ELSE parsed
    IN  withPlaceholders(parseSlidesFrom(1, slideFiles, <<>>, noDesignElements))

HexDigits == "0123456789ABCDEFabcdef"

\* val.match(/^[0-9A-Fa-f]{6}$/)
isHexColor(val) ==
    Len(val) = 6 /\ \A i \in 1..6 : \E h \in 1..Len(HexDigits) : charAt(HexDigits, h) = charAt(val, i)

\* extractThemeColors: '#' + val added for every val attribute that is a hex color.
extractThemeColors(vals, colorSet) ==
    setAddAll(colorSet, [k \in 1..Len(SelectSeq(vals, isHexColor)) |->
                            "#" \o SelectSeq(vals, isHexColor)[k]])

RECURSIVE themeColorsFrom(_, _, _)
\* The loop over the theme files from file i on.
themeColorsFrom(i, themeFiles, colorSet) ==
    IF i > Len(themeFiles) THEN colorSet
    ELSE themeColorsFrom(i + 1, themeFiles,
            IF themeFiles[i].read = "ok" THEN extractThemeColors(themeFiles[i].vals, colorSet)
            ELSE colorSet)

extractLessonFlow(slides) ==
    [k \in 1..Len(slides) |->
        IF slides[k].activityType # "" THEN slides[k].activityType
        ELSE IF slides[k].contentType # "" THEN slides[k].contentType
        ELSE "Content Slide"]

\* No element has imageData: images are never collected.
extractLogoPositions(slides) == <<>>

extractImageStyles(slides) ==
    IF \E k \in 1..Len(slides) : \E e \in 1..Len(slides[k].elements) : slides[k].elements[e].type = "image"
    THEN <<"contextual-images", "professional-layout">>
    ELSE <<"text-focused", "minimal-visuals">>

\* The labels of a slide read in the other order: contentType before activityType.
contentTypeFirst(slides) ==
    [introductionStyle  |-> "Direct Introduction",
     contentProgression |->
        [k \in 1..Len(slides) |->
            IF slides[k].contentType # "Main Content" THEN slides[k].contentType
            ELSE IF slides[k].activityType # "Content Slide" THEN slides[k].activityType
            ELSE IF k = 1 THEN "Introduction"
            ELSE IF k = Len(slides) THEN "Conclusion"
            ELSE "Content Development"],
     activityTypes      |-> <<>>,
     assessmentMethods  |-> <<"Formative Assessment">>,
     conclusionStyle    |-> "Standard Conclusion"]

analyzePedagogicalPatterns(slides) ==
    LET truthy(x)     == x # ""
        activityTypes == SelectSeq([k \in 1..Len(slides) |-> slides[k].activityType], truthy)
        contentTypes  == SelectSeq([k \in 1..Len(slides) |-> slides[k].contentType], truthy)
        lessonFlow    == [k \in 1..Len(slides) |->
                            IF slides[k].activityType # "" /\ slides[k].activityType # "Content Slide"
                                THEN slides[k].activityType
                            ELSE IF slides[k].contentType # "" /\ slides[k].contentType # "Main Content"
                                THEN slides[k].contentType
                            ELSE IF k = 1 THEN "Introduction"
                            ELSE IF k = Len(slides) THEN "Conclusion"
                            ELSE "Content Development"]
    IN  [introductionStyle  |-> IF Len(contentTypes) > 0 THEN contentTypes[1] ELSE "Direct Introduction",
         contentProgression |-> lessonFlow,
         activityTypes      |-> unique(activityTypes),
         assessmentMethods  |-> <<"Formative Assessment">>,
         conclusionStyle    |-> IF Len(contentTypes) > 0 THEN contentTypes[Len(contentTypes)]
                                ELSE "Standard Conclusion"]

\* The outcome of a failed analysis: the error analyzePowerPointFile throws.
analysisFailure(message) ==
    [ok |-> FALSE, error |-> "Failed to analyze PowerPoint file: " \o message]

\* The LessonStructure built from the slides and the design elements.
lessonStructureOf(slides, designElements, colors) ==
    [totalSlides   |-> Len(slides),
     lessonFlow    |-> extractLessonFlow(slides),
     commonLayouts |-> designElements.layouts,
     designSystem  |-> [primaryColors   |-> slice(colors, 0, 3),
                        secondaryColors |-> slice(colors, 3, 6),
                        fontFamilies    |-> slice(designElements.fonts, 0, 3),
                        logoPositions   |-> extractLogoPositions(slides),
                        imageStyles     |-> extractImageStyles(slides)],
     pedagogicalPatterns |->
         [analyzePedagogicalPatterns(slides) EXCEPT !.activityTypes = designElements.activityTypes]]

\* The outcome of analyzePowerPointFile: [ok |-> TRUE, value |-> the LessonStructure], or
\* the error it throws.
analyzePowerPointFile(archive) ==
    IF ~archive.opens THEN analysisFailure(archive.openError)
    ELSE IF ~archive.hasSlidesFolder THEN analysisFailure("No slides found in PowerPoint file")
    ELSE LET isXml(f) == endsWith(f.name, ".xml")
             structure(parsed, themeFiles, unreadable) ==
                 IF unreadable # {} THEN analysisFailure(themeFiles[minOf(unreadable)].readError)
                 ELSE [ok |-> TRUE,
                       value |-> lessonStructureOf(parsed.slides, parsed.designElements,
                                    themeColorsFrom(1, themeFiles, parsed.designElements.colors))]
             withThemes(parsed, themeFiles) ==
                 structure(parsed, themeFiles,
                           {k \in 1..Len(themeFiles) : themeFiles[k].read = "throws"})
         IN  withThemes(parseSlides(locateSlideFiles(archive.entries)),
                        SelectSeq(archive.themeFiles, isXml))

(***************************************************************************)
(* services/pptAnalysisService.ts: the corpus summary                      *)
(***************************************************************************)

RECURSIVE sumOf(_)
\* seq.reduce((sum, x) => sum + x, 0)
sumOf(seq) == IF Len(seq) = 0 THEN 0 ELSE Head(seq) + sumOf(Tail(seq))

\* Math.floor(num / den) in the place of Math.round.
floorDiv(num, den) == num \div den

\* Math.round(num / den) for num >= 0 and den > 0: halves round up.
roundDiv(num, den) == (2 * num + den) \div (2 * den)

RECURSIVE layoutFrequencyFrom(_, _)
\* allLayouts.reduce: the counts of every layout added up, keys in the order first met.
layoutFrequencyFrom(allLayouts, acc) ==
    IF Len(allLayouts) = 0 THEN acc
    ELSE layoutFrequencyFrom(Tail(allLayouts),
            mapSet(acc, Head(allLayouts)[1], mapGetOrZero(acc, Head(allLayouts)[1]) + Head(allLayouts)[2]))

RECURSIVE insertByCount(_, _)
\* x inserted from the right into a sequence of entries sorted by count, largest first.
insertByCount(sorted, x) ==
    IF Len(sorted) > 0 /\ x[2] - sorted[Len(sorted)][2] > 0
    THEN Append(insertByCount(SubSeq(sorted, 1, Len(sorted) - 1), x), sorted[Len(sorted)])
    ELSE Append(sorted, x)

\* The entries in the order of their keys, unsorted.
keepOrder(entries) == entries

RECURSIVE sortByCount(_)
\* entries.sort(([,a], [,b]) => b - a): stable.
sortByCount(entries) ==
    IF Len(entries) = 0 THEN <<>>
    ELSE insertByCount(sortByCount(SubSeq(entries, 1, Len(entries) - 1)), entries[Len(entries)])

\* aggregateAnalysis, today being new Date().toISOString().split('T')[0].
aggregateAnalysis(analyses, today) ==
    LET totalSlides        == sumOf([k \in 1..Len(analyses) |-> analyses[k].totalSlides])
        totalLessons       == Len(analyses)
        allActivityTypes   == flatten([k \in 1..Len(analyses) |-> analyses[k].pedagogicalPatterns.activityTypes])
        uniqueActivityTypes == unique(allActivityTypes)
        allFlowPatterns    == flatten([k \in 1..Len(analyses) |-> analyses[k].pedagogicalPatterns.contentProgression])
        uniqueFlowPatterns == unique(allFlowPatterns)
        allFonts           == flatten([k \in 1..Len(analyses) |-> analyses[k].designSystem.fontFamilies])
        notDefault(font)   == font # "" /\ font # "Arial"
        uniqueFonts        == SelectSeq(unique(allFonts), notDefault)
        allLayouts         == flatten([k \in 1..Len(analyses) |-> analyses[k].commonLayouts])
        layoutFrequency    == layoutFrequencyFrom(allLayouts, <<>>)
        topLayouts         == slice(sortByCount(layoutFrequency), 0, 4)
    IN  [overview |->
            [totalLessons           |-> totalLessons,
             totalSlides            |-> totalSlides,
             averageSlidesPerLesson |-> IF totalSlides > 0 THEN roundDiv(totalSlides, totalLessons) ELSE 0,
             analysisDate           |-> today],
         designSystem |->
            [preferredFonts |-> IF Len(uniqueFonts) > 0 THEN slice(uniqueFonts, 0, 3)
                                ELSE <<"Standard system fonts">>,
             commonLayouts  |-> [k \in 1..Len(topLayouts) |->
                                    [layout |-> topLayouts[k][1],
                                     usage  |-> IF totalSlides > 0
                                                THEN roundDiv(topLayouts[k][2] * 100, totalSlides)
                                                ELSE 0]]],
         pedagogicalInsights |->
            [teachingStyle          |-> "Interactive and systematic approach with varied activities",
             preferredActivityTypes |-> uniqueActivityTypes,
             lessonStructurePattern |-> IF Len(uniqueFlowPatterns) > 0 THEN slice(uniqueFlowPatterns, 0, 6)
                                        ELSE <<"Introduction", "Content Presentation",
                                               "Practice Activities", "Assessment">>,
             assessmentApproach     |-> "Multi-modal assessment through activities and discussion"],
         visualPatterns |->
            [imageUsage     |-> IF \E k \in 1..Len(analyses) : Len(analyses[k].designSystem.imageStyles) > 0
                                THEN "Strategic use of visuals to support content"
                                ELSE "Text-focused with minimal visuals",
             spacingPattern |-> "Organized layout with logical progression",
             textFormatting |-> "Clear hierarchy with readable typography"]]

(***************************************************************************)
(* services/analysisDataStore.ts                                           *)
(*                                                                         *)
(* The store is its analysisData field and the 'corpus_analysis_data' item *)
(* of localStorage. Null stands for null; a stored text is [text |-> the   *)
(* value it parses to]: the summaries are made of strings, integers,       *)
(* arrays and plain objects, which JSON.parse reads back as written.       *)
(***************************************************************************)

Null == [null |-> TRUE]

JSONstringify(data) == [text |-> data]

JSONparse(stored) == stored.text

\* setAnalysisData: the store after it. setItem throws when the storage refuses the
\* item (quota); the field is assigned before.
setAnalysisData(store, data, setItemThrows) ==
    [analysisData |-> data,
     localStorage |-> IF setItemThrows THEN store.localStorage ELSE JSONstringify(data)]

\* getAnalysisData: the store after it; the value returned is its analysisData.
getAnalysisData(store) ==
    IF store.analysisData = Null /\ store.localStorage # Null
    THEN [store EXCEPT !.analysisData = JSONparse(store.localStorage)]
    ELSE store

clearAnalysisData(store) == [analysisData |-> Null, localStorage |-> Null]

hasAnalysisData(store) == getAnalysisData(store).analysisData # Null

(***************************************************************************)
(* The state of the program                                                *)
(***************************************************************************)

VARIABLES
    slideData,        \* the RawSlideContent last classified, or NoSlide
    entry,            \* "none", "raw" (categorizeActivityFromRawSlide) or "pair" (categorizeActivityType)
    labels,           \* what the classifier returned for slideData
    pptFile,          \* the file handed to analyzePowerPointFile, or NoFile
    pptOutcome,       \* what analyzePowerPointFile returned or threw for pptFile, or NotAnalysed
    slideFiles,       \* analyzePowerPointFile: the names in slideFiles after the sort, as logged
    uploadedFiles,    \* CorpusAnalyzer: useState uploadedFiles
    isAnalyzing,      \* CorpusAnalyzer: useState isAnalyzing
    analysisProgress, \* CorpusAnalyzer: useState analysisProgress, as [done, of] progress steps
    analysisComplete, \* CorpusAnalyzer: useState analysisComplete
    analysisResults,  \* CorpusAnalyzer: useState analysisResults
    pc,               \* where startAnalysis is: "idle", "analyzing", "complete" or "failed"
    runFiles,         \* startAnalysis: the uploadedFiles of the render it was started from
    fileIndex,        \* startAnalysis: the file the loop is at, from 1
    fileAnalyses,     \* startAnalysis: the analyses pushed so far
    toasts,           \* the result toasts startAnalysis has shown since it was started
    uploadToasts,     \* the toasts of the last handleFileUpload
    store,            \* analysisDataStore: [analysisData, localStorage]
    lessonStructures, \* the LessonStructures handed to aggregateAnalysis
    summary,          \* what aggregateAnalysis returned for lessonStructures, or NotAggregated
    calls,            \* the classifications made so far: the input and the labels of each
    lastIndex,        \* slideAnalysis.ts: the lastIndex of the XML_PATTERNS used with test and exec
    rawSlide,         \* what extractSlideRawContent returned last, or NoRawSlide
    slideDoc,         \* the slide document handed to analyzeSlideContent, or NoSlideDocument
    analysedSlide,    \* what analyzeSlideContent returned for slideDoc, or NotAnalysed
    lessonSlides,     \* the slides handed to analyzePedagogicalPatterns
    pedagogicalPatterns, \* what analyzePedagogicalPatterns returned for lessonSlides, or NotAnalysed
    chosenTitle,      \* analyzeSlideContent: slideTitle after the three strategies, or NoTitle
    recentData,       \* the data of the last setAnalysisData if no clearAnalysisData followed, else Null
    lessonParams,     \* the params of the last call of generateLessonContent, or NoParams
    fetchCount,       \* the requests that call has made with fetch
    apiResponse,      \* how the request of that call ended, or NoResponse
    lessonPromise     \* the promise that call returned: its state and its value

classifierVars == <<slideData, entry, labels>>

fileVars == <<pptFile, pptOutcome, slideFiles>>

corpusVars == <<uploadedFiles, isAnalyzing, analysisProgress, analysisComplete, analysisResults,
                pc, runFiles, fileIndex, fileAnalyses, toasts, uploadToasts, store>>

patternVars == <<lessonSlides, pedagogicalPatterns>>

titleVars == <<chosenTitle>>

storeVars == <<recentData>>

lessonVars == <<lessonParams, fetchCount, apiResponse, lessonPromise>>

lateVars == <<patternVars, titleVars, storeVars, lessonVars>>

serviceVars == <<lessonStructures, summary, calls, lastIndex, rawSlide, slideDoc, analysedSlide,
                 lateVars>>

vars == <<slideData, entry, labels, pptFile, pptOutcome, slideFiles, uploadedFiles, isAnalyzing,
          analysisProgress, analysisComplete, analysisResults, pc, runFiles, fileIndex,
          fileAnalyses, toasts, uploadToasts, store, lessonStructures, summary, calls,
          lastIndex, rawSlide, slideDoc, analysedSlide, lateVars>>

NoSlide == [slideNumber |-> 0]

NoLabels == [activityType |-> "", contentType |-> "", contentMatch |-> [category |-> "", score |-> 0]]

NoFile == [none |-> TRUE]

NotAnalysed == [pending |-> TRUE]

\* Nothing classified yet.
ClassifierIdle ==
    /\ slideData = NoSlide
    /\ entry = "none"
    /\ labels = NoLabels

\* No file handed to analyzePowerPointFile.
FileIdle ==
    /\ pptFile = NoFile
    /\ pptOutcome = NotAnalysed
    /\ slideFiles = <<>>

\* CorpusAnalyzer as mounted on a fresh page, the store as constructed.
CorpusIdle ==
    /\ uploadedFiles = <<>>
    /\ isAnalyzing = FALSE
    /\ analysisProgress = [done |-> 0, of |-> 1]
    /\ analysisComplete = FALSE
    /\ analysisResults = Null
    /\ pc = "idle"
    /\ runFiles = <<>>
    /\ fileIndex = 1
    /\ fileAnalyses = <<>>
    /\ toasts = <<>>
    /\ uploadToasts = <<>>
    /\ store = [analysisData |-> Null, localStorage |-> Null]

NotAggregated == [pending |-> TRUE]

\* The lastIndex of the global patterns of XML_PATTERNS when the module is loaded.
PatternsAsLoaded == [TITLE_SHAPE |-> 0, IMAGE_REFERENCE |-> 0, BULLET_POINTS |-> 0, TABLE_STRUCTURE |-> 0]

NoRawSlide == [slideNumber |-> 0]

NoSlideDocument == [none |-> TRUE]

\* No call of analyzePedagogicalPatterns.
PatternsIdle ==
    /\ lessonSlides = <<>>
    /\ pedagogicalPatterns = NotAnalysed

NoTitle == [none |-> TRUE]

NoParams == [none |-> TRUE]

NoPromise == [state |-> "none"]

NoResponse == [none |-> TRUE]

LessonIdle ==
    /\ lessonParams = NoParams
    /\ fetchCount = 0
    /\ apiResponse = NoResponse
    /\ lessonPromise = NoPromise

LateIdle == PatternsIdle /\ chosenTitle = NoTitle /\ recentData = Null /\ LessonIdle

\* No call of the services that take no part in the machines above.
ServiceIdle ==
    /\ lessonStructures = <<>>
    /\ summary = NotAggregated
    /\ calls = <<>>
    /\ lastIndex = PatternsAsLoaded
    /\ rawSlide = NoRawSlide
    /\ slideDoc = NoSlideDocument
    /\ analysedSlide = NotAnalysed
    /\ LateIdle

(***************************************************************************)
(* The classifier applied to one slide record                              *)
(***************************************************************************)

\* Largest number of text elements of a classified slide.
MaxTextElements == 6

\* Largest slide number of a classified slide.
MaxSlideNumber == 2

\* layoutHints as extractSlideRawContent builds them from the features of a slide.
layoutHintsOf(hasImages, hasBullets, hasTable, nText) ==
    (IF hasImages THEN <<"images">> ELSE <<>>) \o
    (IF hasBullets THEN <<"bullets">> ELSE <<>>) \o
    (IF hasTable THEN <<"table">> ELSE <<>>) \o
    (IF nText > 5 THEN <<"text-heavy">> ELSE <<>>)

\* The slide records classified: every title and text with every combination of features.
RawSlides ==
    {[slideNumber  |-> n,
      textElements |-> [k \in 1..m |-> "item"],
      title        |-> t,
      allText      |-> a,
      hasImages    |-> img,
      layoutHints  |-> layoutHintsOf(img, bul, tbl, m)] :
        n \in 1..MaxSlideNumber, m \in 0..MaxTextElements, t \in Titles, a \in Texts,
        img \in BOOLEAN, bul \in BOOLEAN, tbl \in BOOLEAN}

\* A caller classifies a slide record with categorizeActivityFromRawSlide and
\* determineContentType.
ClassifyRawSlide ==
    \E s \in RawSlides :
        /\ entry = "none"
        /\ slideData' = s
        /\ entry' = "raw"
        /\ labels' = [activityType |-> categorizeActivityFromRawSlide(s),
                      contentType  |-> determineContentType(s.allText),
                      contentMatch |-> findBestPatternMatch(s.allText)]
        /\ UNCHANGED <<fileVars, corpusVars, serviceVars>>

\* A caller classifies a (title, allText) pair with categorizeActivityType.
ClassifyTitleAndText ==
    \E t \in Titles, a \in Texts :
        /\ entry = "none"
        /\ slideData' = [slideNumber |-> 1, textElements |-> <<t>>, title |-> t,
                         allText |-> a, hasImages |-> FALSE, layoutHints |-> <<>>]
        /\ entry' = "pair"
        /\ labels' = [activityType |-> categorizeActivityType(t, a),
                      contentType  |-> determineContentType(a),
                      contentMatch |-> findBestPatternMatch(a)]
        /\ UNCHANGED <<fileVars, corpusVars, serviceVars>>

ClassifierInit == ClassifierIdle /\ FileIdle /\ CorpusIdle /\ ServiceIdle

ClassifierNext == ClassifyRawSlide \/ ClassifyTitleAndText

SpecClassifier == ClassifierInit /\ [][ClassifierNext]_vars

(***************************************************************************)
(* analyzePowerPointFile applied to one file                               *)
(***************************************************************************)

\* Largest number of slide parts of an analysed file.
MaxParts == 3

\* What reading one slide part gives.
SlideParts ==
    {[read |-> "ok", readError |-> "", doc |-> d] : d \in SlideDocuments}
    \cup {[read |-> "empty", readError |-> "", doc |-> BlankSlide],
          [read |-> "throws", readError |-> "Corrupted zip: can't find end of data", doc |-> BlankSlide]}

\* The name of slide part k.
slidePartName(k) == "slide" \o charAt(Digits, k + 1) \o ".xml"

\* The entries of ppt/slides for a sequence of parts.
entriesOf(parts) ==
    [k \in 1..Len(parts) |->
        [name |-> slidePartName(k), dir |-> FALSE, read |-> parts[k].read,
         readError |-> parts[k].readError, doc |-> parts[k].doc]]

OfficeTheme ==
    [name |-> "theme1.xml", read |-> "ok", readError |-> "",
     vals |-> <<"1F497D", "window", "FFFFFF", "4F81BD">>]

UnreadableTheme ==
    [name |-> "theme1.xml", read |-> "throws", readError |-> "Corrupted zip: can't find end of data",
     vals |-> <<>>]

\* A file that JSZip opens and that has a ppt/slides folder.
pptx(parts, themeFiles) ==
    [opens |-> TRUE, openError |-> "", hasSlidesFolder |-> TRUE,
     entries |-> entriesOf(parts), themeFiles |-> themeFiles]

\* A file that is no zip archive.
NotAZip ==
    [opens |-> FALSE, openError |-> "Can't find end of central directory : is this a zip file ?",
     hasSlidesFolder |-> FALSE, entries |-> <<>>, themeFiles |-> <<>>]

\* A zip archive without ppt/slides.
NoSlidesFolder ==
    [opens |-> TRUE, openError |-> "", hasSlidesFolder |-> FALSE, entries |-> <<>>, themeFiles |-> <<>>]

PartSequences == UNION {[1..n -> SlideParts] : n \in 0..MaxParts}

\* The files analysed.
Archives ==
    {pptx(parts, themeFiles) : parts \in PartSequences, themeFiles \in {<<>>, <<OfficeTheme>>}}
    \cup {pptx(parts, <<UnreadableTheme>>) : parts \in [1..1 -> SlideParts]}
    \cup {NotAZip, NoSlidesFolder}

\* A caller awaits analyzePowerPointFile(pptFile).
AnalyzeFile ==
    /\ pptFile # NoFile
    /\ pptOutcome = NotAnalysed
    /\ pptOutcome' = analyzePowerPointFile(pptFile)
    /\ slideFiles' = IF pptFile.opens /\ pptFile.hasSlidesFolder
                     THEN [k \in 1..Len(locateSlideFiles(pptFile.entries)) |->
                              locateSlideFiles(pptFile.entries)[k].name]
                     ELSE slideFiles
    /\ UNCHANGED <<pptFile, classifierVars, corpusVars, serviceVars>>

FileInit ==
    /\ pptFile \in Archives
    /\ pptOutcome = NotAnalysed
    /\ slideFiles = <<>>
    /\ ClassifierIdle
    /\ CorpusIdle
    /\ ServiceIdle

FileNext == AnalyzeFile

SpecFile == FileInit /\ [][FileNext]_vars

(***************************************************************************)
(* The slide locator: analyzePowerPointFile on folders of any entries      *)
(***************************************************************************)

\* The longest ppt/slides folder listed.
MaxEntries == 3

\* The entries a ppt/slides folder is made of: numbered slide parts, slide parts named
\* otherwise, other XML parts, and the directory of the relationship parts.
FolderEntries ==
    {[name |-> n, dir |-> FALSE, read |-> "ok", readError |-> "", doc |-> BlankSlide] :
        n \in {"slide1.xml", "slide2.xml", "slide10.xml", "slide02.xml", "slide.xml",
               "myslide3.xml", "notes.xml", "chart7.xml"}}
    \cup {[name |-> "_rels/", dir |-> TRUE, read |-> "empty", readError |-> "", doc |-> BlankSlide]}

\* The folders: slidesFolder.files is an object, its names are distinct.
Folders ==
    {entries \in UNION {[1..n -> FolderEntries] : n \in 0..MaxEntries} :
        \A i, j \in 1..Len(entries) : i # j => entries[i].name # entries[j].name}

LocatorInit ==
    /\ pptFile \in {[opens |-> TRUE, openError |-> "", hasSlidesFolder |-> TRUE,
                      entries |-> entries, themeFiles |-> <<>>] : entries \in Folders}
    /\ pptOutcome = NotAnalysed
    /\ slideFiles = <<>>
    /\ ClassifierIdle
    /\ CorpusIdle
    /\ ServiceIdle

SpecLocator == LocatorInit /\ [][FileNext]_vars


(***************************************************************************)
(* components/CorpusAnalyzer.tsx: a corpus run                             *)
(*                                                                         *)
(* An uploaded file is [name, type, file], file being the archive          *)
(* analyzePowerPointFile is given; its size and its random id are read by  *)
(* the view only. A toast is [title, variant, file, message, count].       *)
(***************************************************************************)

\* Largest number of uploaded files.
MaxFiles == 2

\* analysisSteps.length
AnalysisSteps == 10

PptxType == "application/vnd.openxmlformats-officedocument.presentationml.presentation"

okPart(doc) == [read |-> "ok", readError |-> "", doc |-> doc]

throwingPart == [read |-> "throws", readError |-> "Corrupted zip: can't find end of data", doc |-> BlankSlide]

\* The files the user can select.
SelectableFiles ==
    {[name |-> "lessonA.pptx", type |-> PptxType,
      file |-> pptx(<<okPart(WarmUpSlide), okPart(ReadingSlide)>>, <<OfficeTheme>>)],
     [name |-> "lessonB.pptx", type |-> "",
      file |-> pptx(<<okPart(ReadingSlide), throwingPart, okPart(BlankSlide)>>, <<>>)],
     [name |-> "broken.pptx", type |-> PptxType, file |-> NotAZip],
     [name |-> "handout.pptx", type |-> PptxType, file |-> NoSlidesFolder],
     [name |-> "notes.txt", type |-> "text/plain", file |-> NotAZip]}

\* The date new Date() gives during the runs of the model.
Dates == {"2025-03-01"}

\* await analyzePowerPointFile(file.file)
analysisOf(uploaded) == analyzePowerPointFile(uploaded.file)

toast(title, variant, file, message, count) ==
    [title |-> title, variant |-> variant, file |-> file, message |-> message, count |-> count]

\* The filter of handleFileUpload.
isValidFile(f) == f.type = PptxType \/ endsWith(f.name, ".pptx")

\* handleFileUpload for the files of one change event.
HandleFileUpload ==
    \E f \in SelectableFiles :
        LET files      == <<f>>
            validFiles == SelectSeq(files, isValidFile)
        IN  /\ Len(uploadedFiles) + Len(validFiles) <= MaxFiles
            /\ uploadedFiles' = uploadedFiles \o validFiles
            /\ uploadToasts' =
                   (IF Len(validFiles) # Len(files)
                    THEN <<toast("Invalid Files Detected", "destructive", "", "", 0)>> ELSE <<>>)
                   \o <<toast("Files Uploaded", "default", "", "", Len(validFiles))>>
            /\ UNCHANGED <<isAnalyzing, analysisProgress, analysisComplete, analysisResults, pc,
                           runFiles, fileIndex, fileAnalyses, toasts, store,
                           classifierVars, fileVars, serviceVars>>

\* A startAnalysis that drops the outcome of the run before when it starts.
StartAnalysisClearingOutcome ==
    /\ ~isAnalyzing
    /\ Len(uploadedFiles) > 0
    /\ isAnalyzing' = TRUE
    /\ analysisProgress' = [done |-> 0, of |-> 1]
    /\ pc' = "analyzing"
    /\ runFiles' = uploadedFiles
    /\ fileIndex' = 1
    /\ fileAnalyses' = <<>>
    /\ toasts' = <<>>
    /\ analysisResults' = Null
    /\ analysisComplete' = FALSE
    /\ UNCHANGED <<uploadedFiles, uploadToasts, store, classifierVars, fileVars, serviceVars>>

\* startAnalysis up to its first await. The button is disabled while isAnalyzing or
\* without uploaded files.
StartAnalysis ==
    /\ ~isAnalyzing
    /\ Len(uploadedFiles) > 0
    /\ isAnalyzing' = TRUE
    /\ analysisProgress' = [done |-> 0, of |-> 1]
    /\ pc' = "analyzing"
    /\ runFiles' = uploadedFiles
    /\ fileIndex' = 1
    /\ fileAnalyses' = <<>>
    /\ toasts' = <<>>
    /\ UNCHANGED <<uploadedFiles, analysisComplete, analysisResults, uploadToasts, store,
                   classifierVars, fileVars, serviceVars>>

\* The inner try of the loop with a failed analysis pushed as a lesson without slides.
analyzeOneFileKeepingFailures(uploaded, analyses) ==
    LET result(outcome) ==
            IF outcome.ok
            THEN [fileAnalyses |-> Append(analyses, outcome.value),
                  toast |-> toast("File Analysis Complete", "default", uploaded.name, "",
                                  outcome.value.totalSlides)]
            ELSE [fileAnalyses |-> Append(analyses, lessonStructureOf(<<>>, noDesignElements, <<>>)),
                  toast |-> toast("Analysis Warning", "destructive", uploaded.name, outcome.error, 0)]
    IN  result(analysisOf(uploaded))

\* The inner try of the loop: the analyses after it and the toast it shows.
analyzeOneFile(uploaded, analyses) ==
    LET result(outcome) ==
            IF outcome.ok
            THEN [fileAnalyses |-> Append(analyses, outcome.value),
                  toast |-> toast("File Analysis Complete", "default", uploaded.name, "",
                                  outcome.value.totalSlides)]
            ELSE [fileAnalyses |-> analyses,
                  toast |-> toast("Analysis Warning", "destructive", uploaded.name, outcome.error, 0)]
    IN  result(analysisOf(uploaded))

\* The test after the loop, never true.
neverFails(analyses) == FALSE

\* The test after the loop.
noFileAnalysed(analyses) == Len(analyses) = 0

\* The progress steps and the analysis of a file that is not the last one.
AnalyzeNextFile ==
    /\ pc = "analyzing"
    /\ fileIndex < Len(runFiles)
    /\ \E after \in {analyzeOneFile(runFiles[fileIndex], fileAnalyses)} :
           /\ fileAnalyses' = after.fileAnalyses
           /\ toasts' = Append(toasts, after.toast)
    /\ analysisProgress' = [done |-> fileIndex * AnalysisSteps, of |-> Len(runFiles) * AnalysisSteps]
    /\ fileIndex' = fileIndex + 1
    /\ UNCHANGED <<uploadedFiles, isAnalyzing, analysisComplete, analysisResults, pc, runFiles,
                   uploadToasts, store, classifierVars, fileVars, serviceVars>>

\* An end of startAnalysis whose catch block does not reset isAnalyzing: the run that
\* fails stays marked as running.
AnalyzeLastFileWithoutReset ==
    /\ pc = "analyzing"
    /\ fileIndex = Len(runFiles)
    /\ analysisProgress' = [done |-> fileIndex * AnalysisSteps, of |-> Len(runFiles) * AnalysisSteps]
    /\ fileIndex' = fileIndex + 1
    /\ \E after \in {analyzeOneFile(runFiles[fileIndex], fileAnalyses)} :
           /\ fileAnalyses' = after.fileAnalyses
           /\ IF noFileAnalysed(after.fileAnalyses)
              THEN /\ pc' = "failed"
                   /\ toasts' = toasts \o <<after.toast,
                          toast("Analysis Failed", "destructive", "",
                                "No files could be analyzed successfully", 0)>>
                   /\ UNCHANGED <<analysisResults, analysisComplete, store, isAnalyzing>>
              ELSE \E today \in Dates :
                   \E aggregatedResults \in {aggregateAnalysis(after.fileAnalyses, today)} :
                       /\ analysisResults' = aggregatedResults
                       /\ store' = setAnalysisData(store, aggregatedResults, FALSE)
                       /\ analysisComplete' = TRUE
                       /\ isAnalyzing' = FALSE
                       /\ pc' = "complete"
                       /\ toasts' = toasts \o <<after.toast,
                              toast("Deep Analysis Complete!", "default", "", "",
                                    Len(after.fileAnalyses))>>
    /\ UNCHANGED <<uploadedFiles, runFiles, uploadToasts, classifierVars, fileVars, serviceVars>>

\* The progress steps and the analysis of the last file, and the rest of startAnalysis:
\* the summary is set, stored and the run marked complete, or the catch block runs.
AnalyzeLastFile ==
    /\ pc = "analyzing"
    /\ fileIndex = Len(runFiles)
    /\ analysisProgress' = [done |-> fileIndex * AnalysisSteps, of |-> Len(runFiles) * AnalysisSteps]
    /\ fileIndex' = fileIndex + 1
    /\ isAnalyzing' = FALSE
    /\ \E after \in {analyzeOneFile(runFiles[fileIndex], fileAnalyses)} :
           /\ fileAnalyses' = after.fileAnalyses
           /\ IF noFileAnalysed(after.fileAnalyses)
              THEN /\ pc' = "failed"
                   /\ toasts' = toasts \o <<after.toast,
                          toast("Analysis Failed", "destructive", "",
                                "No files could be analyzed successfully", 0)>>
                   /\ UNCHANGED <<analysisResults, analysisComplete, store>>
              ELSE \E today \in Dates, setItemThrows \in BOOLEAN :
                   \E aggregatedResults \in {aggregateAnalysis(after.fileAnalyses, today)} :
                       /\ analysisResults' = aggregatedResults
                       /\ store' = setAnalysisData(store, aggregatedResults, setItemThrows)
                       /\ analysisComplete' = IF setItemThrows THEN analysisComplete ELSE TRUE
                       /\ pc' = IF setItemThrows THEN "failed" ELSE "complete"
                       /\ toasts' = toasts \o <<after.toast,
                              IF setItemThrows
                              THEN toast("Analysis Failed", "destructive", "",
                                         "The quota has been exceeded.", 0)
                              ELSE toast("Deep Analysis Complete!", "default", "", "",
                                         Len(after.fileAnalyses))>>
    /\ UNCHANGED <<uploadedFiles, runFiles, uploadToasts, classifierVars, fileVars, serviceVars>>

\* The page is loaded again: the component and the store start over, localStorage stays.
ReloadPage ==
    /\ uploadedFiles' = <<>>
    /\ isAnalyzing' = FALSE
    /\ analysisProgress' = [done |-> 0, of |-> 1]
    /\ analysisComplete' = FALSE
    /\ analysisResults' = Null
    /\ pc' = "idle"
    /\ runFiles' = <<>>
    /\ fileIndex' = 1
    /\ fileAnalyses' = <<>>
    /\ toasts' = <<>>
    /\ uploadToasts' = <<>>
    /\ store' = [analysisData |-> Null, localStorage |-> store.localStorage]
    /\ UNCHANGED <<classifierVars, fileVars, serviceVars>>

Init == ClassifierIdle /\ FileIdle /\ CorpusIdle /\ ServiceIdle

Next ==
    \/ HandleFileUpload
    \/ StartAnalysis
    \/ AnalyzeNextFile
    \/ AnalyzeLastFile
    \/ ReloadPage

Spec == Init /\ [][Next]_vars

\* A step of the loop of startAnalysis: a step of a running run that moves on to the
\* next file. AnalyzeNextFile and AnalyzeLastFile are the steps that do so, and one of
\* the two is enabled whenever a run is running.
LoopStep == pc = "analyzing" /\ fileIndex' = fileIndex + 1

\* The runs of the page when a run that was started goes on: every await of startAnalysis
\* settles (the analysis of a file resolves or rejects, and the progress timer of 600 ms
\* fires), so a step of the loop that is enabled is taken in the end. Uploads and page
\* reloads are the user's and are not forced.
SpecLive == Init /\ [][Next]_vars /\ WF_fileIndex(LoopStep)

(***************************************************************************)
(* aggregateAnalysis applied to the LessonStructures of a corpus           *)
(***************************************************************************)

\* Most LessonStructures handed to aggregateAnalysis.
MaxLessons == 3

\* A SlideAnalysis with the fields the aggregation of a file reads.
sampleSlide(layout, fonts, activityType, contentType) ==
    [slideNumber     |-> 0,
     layout          |-> layout,
     backgroundColor |-> "#FFFFFF",
     elements        |-> <<>>,
     designPatterns  |-> [titlePosition |-> "top", contentLayout |-> "single-focus",
                          imageAlignment |-> "none", colorScheme |-> <<>>, fontHierarchy |-> fonts],
     activityType    |-> activityType,
     contentType     |-> contentType]

\* n slides alike.
times(n, slide) == [k \in 1..n |-> [slide EXCEPT !.slideNumber = k]]

RECURSIVE slidesPushed(_, _)
\* The slides and design elements after the slide loop has pushed slideAnalyses.
slidesPushed(slideAnalyses, pushed) ==
    IF Len(slideAnalyses) = 0 THEN pushed
    ELSE slidesPushed(Tail(slideAnalyses),
                      addSlideAnalysis(Head(slideAnalyses), pushed.slides, pushed.designElements))

\* The LessonStructure of a file whose slides are analysed to slideAnalyses and whose
\* theme holds the colours themeVals.
lessonOf(slideAnalyses, themeVals) ==
    LET structure(pushed) ==
            lessonStructureOf(pushed.slides, pushed.designElements,
                              extractThemeColors(themeVals, pushed.designElements.colors))
    IN  structure(slidesPushed(slideAnalyses, [slides |-> <<>>, designElements |-> noDesignElements]))

\* The LessonStructures of the corpus: files of 5, 8, 3, 2, 2 and 0 slides.
SampleLessons ==
    {lessonOf(times(3, sampleSlide("Standard Layout", <<"Calibri", "Arial">>, "Warm-up", "Introduction"))
              \o times(2, sampleSlide("Text Heavy", <<"Georgia", "Arial">>, "Question, Reading", "Main Content")),
              <<"1F497D", "FFFFFF">>),
     lessonOf(times(5, sampleSlide("Mixed Content", <<"Verdana">>, "Vocabulary", "Vocabulary Introduction"))
              \o times(3, sampleSlide("Text Heavy", <<"Tahoma", "Arial">>, "Content Slide", "Main Content")),
              <<"4F81BD">>),
     lessonOf(times(3, sampleSlide("Title Slide", <<"Arial">>, "Content Slide", "Main Content")), <<>>),
     lessonOf(times(2, sampleSlide("Standard Layout", <<"Calibri">>, "Warm-up", "Introduction")),
              <<"1F497D">>),
     lessonOf(times(1, sampleSlide("Visual Focused", <<>>, "Content Slide", "Main Content"))
              \o <<failedSlide(2)>>, <<>>),
     lessonOf(<<>>, <<>>)}

\* A caller hands LessonStructures to aggregateAnalysis.
AggregateAnalyses ==
    /\ summary = NotAggregated
    /\ \E today \in Dates : summary' = aggregateAnalysis(lessonStructures, today)
    /\ UNCHANGED <<lessonStructures, calls, lastIndex, rawSlide, slideDoc, analysedSlide, lateVars,
                 classifierVars, fileVars, corpusVars>>

AggregateInit ==
    /\ lessonStructures \in UNION {[1..n -> SampleLessons] : n \in 0..MaxLessons}
    /\ summary = NotAggregated
    /\ calls = <<>>
    /\ lastIndex = PatternsAsLoaded
    /\ rawSlide = NoRawSlide
    /\ slideDoc = NoSlideDocument
    /\ analysedSlide = NotAnalysed
    /\ LateIdle
    /\ ClassifierIdle
    /\ FileIdle
    /\ CorpusIdle

AggregateNext == AggregateAnalyses

SpecAggregate == AggregateInit /\ [][AggregateNext]_vars

(***************************************************************************)
(* What the classifier is expected to return, stated without its loops     *)
(***************************************************************************)

\* The score of category i on lowerText: its keywords occurring there, times its priority.
CategoryScore(i, lowerText) ==
    Cardinality({k \in 1..Len(ACTIVITY_PATTERNS[i].keywords) :
                    includes(lowerText, ACTIVITY_PATTERNS[i].keywords[k])})
        * ACTIVITY_PATTERNS[i].priority

\* The scores of all categories on every text of the model.
ScoreTable ==
    [text \in MatchedTexts |->
        [i \in 1..Len(ACTIVITY_PATTERNS) |-> CategoryScore(i, toLowerCase(text))]]

\* Whether a keyword of some category occurs in text.
HasKeyword(text) == \E i \in 1..Len(ACTIVITY_PATTERNS) : ScoreTable[text][i] > 0

\* The highest score any category reaches on text.
TopScore(text) ==
    CHOOSE m \in {ScoreTable[text][i] : i \in 1..Len(ACTIVITY_PATTERNS)} :
        \A i \in 1..Len(ACTIVITY_PATTERNS) : ScoreTable[text][i] <= m

\* The categories that reach the highest score on text, by their place in the table.
TopCategories(text) ==
    {i \in 1..Len(ACTIVITY_PATTERNS) : ScoreTable[text][i] = TopScore(text)}

\* The first registered category among those with the highest score.
FirstTopCategory(text) == ACTIVITY_PATTERNS[minOf(TopCategories(text))].category

\* The title as the title strategies read it.
CleanTitle == toLowerCase(trim(slideData.title))

\* Whether a phrase of the direct title map occurs in the title.
TitleHasPhrase == \E k \in 1..Len(TITLE_CATEGORY_MAP) : includes(CleanTitle, TITLE_CATEGORY_MAP[k][1])

\* The category of the first phrase of the direct title map that occurs in the title.
FirstPhraseCategory ==
    TITLE_CATEGORY_MAP[minOf({k \in 1..Len(TITLE_CATEGORY_MAP) :
                                 includes(CleanTitle, TITLE_CATEGORY_MAP[k][1])})][2]

\* Whether a keyword of the content type table occurs in text.
HasContentKeyword(text) ==
    \E r \in 1..Len(CONTENT_TYPE_RULES) : \E k \in 1..Len(CONTENT_TYPE_RULES[r].keywords) :
        includes(toLowerCase(text), CONTENT_TYPE_RULES[r].keywords[k])

(***************************************************************************)
(* Claims on the classifier (SpecClassifier)                               *)
(***************************************************************************)

\* C7: title-level strategies precede body-level ones. When the title holds a phrase of
\* the direct title map, the activity type is the category of the first such phrase;
\* failing that, when the title holds a category keyword, it is the best keyword match of
\* the title. Both depend on the title alone, so it is the same for every allText,
\* layout hints and slide number. 'Warm Up Activity' gives 'Introduction' also with
\* 'practice' in the body, 'Vocabulary: Animals' gives 'Vocabulary Development' also with
\* a 'match ...' body.
C7_TitlePrecedesBody ==
    entry # "none" =>
        /\ TitleHasPhrase => labels.activityType = FirstPhraseCategory
        /\ (~TitleHasPhrase /\ HasKeyword(CleanTitle)) =>
               labels.activityType = FirstTopCategory(CleanTitle)
        /\ slideData.title = "Warm Up Activity" => labels.activityType = "Introduction"
        /\ slideData.title = "Vocabulary: Animals" => labels.activityType = "Vocabulary Development"

\* C7 witness: 'Warm Up Activity' over a body whose own best match is another category.
C7_Witness ==
    /\ entry = "raw"
    /\ slideData.title = "Warm Up Activity"
    /\ includes(slideData.allText, "practice")
    /\ labels.contentMatch.category = "Practice Activities"
    /\ labels.activityType = "Introduction"

\* C8: the keyword match returns the category with the highest score (keywords found
\* times priority), and among categories with the same highest score the one
\* registered first; with no keyword found it returns 'Content Slide' with score 0.
C8_HighestScoreFirstRegistered ==
    entry # "none" =>
        IF HasKeyword(slideData.allText)
        THEN /\ labels.contentMatch.category = FirstTopCategory(slideData.allText)
             /\ labels.contentMatch.score = TopScore(slideData.allText)
        ELSE labels.contentMatch = [category |-> "Content Slide", score |-> 0]

\* C8 witness: two categories tie at the highest score and the first registered is returned.
C8_Witness ==
    /\ entry # "none"
    /\ Cardinality(TopCategories(slideData.allText)) >= 2
    /\ TopScore(slideData.allText) > 0
    /\ labels.contentMatch.category = "Reading Activities"
    /\ ACTIVITY_PATTERNS[12].category = "Writing Activities"
    /\ 12 \in TopCategories(slideData.allText)

\* C9: through categorizeActivityType(title, allText), an empty title and a text without
\* any category keyword give the default 'Content Slide'.
C9_DefaultContentSlide ==
    (entry = "pair" /\ slideData.title = "" /\ ~HasKeyword(slideData.allText)) =>
        labels.activityType = "Content Slide"

\* C10: with an empty title, the activity type is the best keyword match over allText
\* whenever a category keyword occurs in allText, and the content type is 'Main Content'
\* when no content type keyword occurs in allText.
C10_EmptyTitleBodyMatch ==
    (entry # "none" /\ slideData.title = "") =>
        /\ HasKeyword(slideData.allText) =>
               labels.activityType = FirstTopCategory(slideData.allText)
        /\ slideData.allText = "Let's discuss your opinions on this topic" =>
               labels.activityType = "Discussion Activities"
        /\ ~HasContentKeyword(slideData.allText) => labels.contentType = "Main Content"

\* C10 witness: the empty-title slide with the discussion body, on a slide with a table.
C10_Witness ==
    /\ entry = "raw"
    /\ slideData.title = ""
    /\ slideData.allText = "Let's discuss your opinions on this topic"
    /\ hasHint(slideData.layoutHints, "table")
    /\ labels.activityType = "Discussion Activities"
    /\ labels.contentType = "Main Content"

(***************************************************************************)
(* What analyzePowerPointFile is expected to return                        *)
(***************************************************************************)

\* analyzePowerPointFile has returned or thrown for pptFile.
FileAnalysed == pptFile # NoFile /\ pptOutcome # NotAnalysed

\* The slide parts the locator finds in pptFile, in the order they are parsed.
LocatedParts == locateSlideFiles(pptFile.entries)

\* The places of the located parts whose parsing throws.
ThrowingParts == {k \in 1..Len(LocatedParts) : LocatedParts[k].read = "throws"}

\* The places of the located parts that read as an empty text.
EmptyParts == {k \in 1..Len(LocatedParts) : LocatedParts[k].read = "empty"}

\* Nothing but slide parts can fail: the file opens, has its slides folder and every
\* theme file is readable.
FileReadable ==
    /\ pptFile.opens
    /\ pptFile.hasSlidesFolder
    /\ \A k \in 1..Len(pptFile.themeFiles) : pptFile.themeFiles[k].read # "throws"

\* The places of the located parts that are not passed over, in order.
CountedParts ==
    LET counted(k) == LocatedParts[k].read # "empty"
    IN  SelectSeq([k \in 1..Len(LocatedParts) |-> k], counted)

\* C1: the LessonStructure of a file has totalSlides equal to the number of slide parts
\* the locator finds, empty and unreadable parts included, and lessonFlow has
\* totalSlides entries.
C1_TotalSlidesIsPartCount ==
    (FileAnalysed /\ pptOutcome.ok) =>
        /\ pptOutcome.value.totalSlides = Len(LocatedParts)
        /\ Len(pptOutcome.value.lessonFlow) = pptOutcome.value.totalSlides

\* C2: the counts of commonLayouts of a LessonStructure add up to its totalSlides,
\* placeholders included.
C2_LayoutCountsSumToTotal ==
    (FileAnalysed /\ pptOutcome.ok) =>
        sumOf([k \in 1..Len(pptOutcome.value.commonLayouts) |-> pptOutcome.value.commonLayouts[k][2]])
            = pptOutcome.value.totalSlides

\* C3: when parsing a slide part throws while the file itself is readable, the analysis
\* returns a LessonStructure: the failed part is counted in totalSlides and stands in
\* lessonFlow as the placeholder 'Content Slide', and every other part that has content
\* stands there with the label of its own analysis, in the order of the parts.
C3_FailedPartBecomesPlaceholder ==
    (FileAnalysed /\ FileReadable /\ ThrowingParts # {}) =>
        /\ pptOutcome.ok
        /\ pptOutcome.value.totalSlides = Len(CountedParts)
        /\ Len(pptOutcome.value.lessonFlow) = Len(CountedParts)
        /\ \A j \in 1..Len(CountedParts) :
               pptOutcome.value.lessonFlow[j] =
                   IF CountedParts[j] \in ThrowingParts THEN "Content Slide"
                   ELSE analyzeSlideContent(LocatedParts[CountedParts[j]].doc, CountedParts[j]).activityType

\* C3 witness: a file of three parts whose second part throws and whose other parts are
\* analysed to labels of their own.
C3_Witness ==
    /\ FileAnalysed
    /\ FileReadable
    /\ Len(LocatedParts) = 3
    /\ ThrowingParts = {2}
    /\ pptOutcome.ok
    /\ pptOutcome.value.totalSlides = 3
    /\ pptOutcome.value.lessonFlow[2] = "Content Slide"
    /\ pptOutcome.value.lessonFlow[1] # "Content Slide"
    /\ pptOutcome.value.lessonFlow[3] # "Content Slide"

\* C6 as stated: when parsing every slide part of a file throws, the analysis of the file
\* fails with an error.
C6_AllPartsFailingFails ==
    (FileAnalysed /\ Len(LocatedParts) > 0 /\ ThrowingParts = 1..Len(LocatedParts)) =>
        ~pptOutcome.ok

\* C6 amended: when every slide part of a readable file throws or is empty, the analysis
\* does not fail: it returns a LessonStructure made of placeholders only, one 'Content
\* Slide' for every throwing part, or for every part when none throws.
C6_AllPartsFailingGivesPlaceholders ==
    (FileAnalysed /\ FileReadable /\ Len(LocatedParts) > 0
        /\ ThrowingParts \cup EmptyParts = 1..Len(LocatedParts)) =>
        /\ pptOutcome.ok
        /\ pptOutcome.value.totalSlides =
               IF ThrowingParts = {} THEN Len(LocatedParts) ELSE Cardinality(ThrowingParts)
        /\ pptOutcome.value.lessonFlow = [j \in 1..pptOutcome.value.totalSlides |-> "Content Slide"]
        /\ pptOutcome.value.commonLayouts = <<>>

\* C6 witness: a file of two parts that both throw, analysed to two placeholders.
C6_Witness ==
    /\ FileAnalysed
    /\ Len(LocatedParts) = 2
    /\ ThrowingParts = {1, 2}
    /\ pptOutcome.ok
    /\ pptOutcome.value.totalSlides = 2
    /\ pptOutcome.value.lessonFlow = <<"Content Slide", "Content Slide">>

(***************************************************************************)
(* What a corpus run is expected to do                                     *)
(***************************************************************************)

\* The analysis of an uploaded file returns a LessonStructure.
Succeeds(uploaded) == analyzePowerPointFile(uploaded.file).ok

Fails(uploaded) == ~Succeeds(uploaded)

\* The files of the run the loop is done with.
FilesDone == SubSeq(runFiles, 1, fileIndex - 1)

\* The LessonStructures of the files that succeeded among files, in their order.
AnalysesOf(files) ==
    [k \in 1..Len(SelectSeq(files, Succeeds)) |->
        analyzePowerPointFile(SelectSeq(files, Succeeds)[k].file).value]

\* The toasts of the run with the given title.
ToastsTitled(title) == LET titled(t) == t.title = title IN SelectSeq(toasts, titled)

\* C4: in a corpus run, a file whose analysis fails is reported by a warning and skipped:
\* the loop goes on to the end of the files, the analyses kept are those of exactly the
\* files that succeeded, and the summary of a completed run is the aggregate of exactly
\* these, with totalLessons the number of successful files.
C4_FailedFilesSkipped ==
    (pc # "idle") =>
        /\ fileAnalyses = AnalysesOf(FilesDone)
        /\ [k \in 1..Len(ToastsTitled("Analysis Warning")) |-> ToastsTitled("Analysis Warning")[k].file]
               = [k \in 1..Len(SelectSeq(FilesDone, Fails)) |-> SelectSeq(FilesDone, Fails)[k].name]
        /\ (pc # "analyzing") => FilesDone = runFiles
        /\ (pc = "complete") =>
               /\ analysisResults.overview.totalLessons = Len(SelectSeq(runFiles, Succeeds))
               /\ \E today \in Dates : analysisResults = aggregateAnalysis(AnalysesOf(runFiles), today)

\* C4 witness: a completed run of two files whose first file failed and whose second
\* file was analysed.
C4_Witness ==
    /\ pc = "complete"
    /\ Len(runFiles) = 2
    /\ Fails(runFiles[1])
    /\ Succeeds(runFiles[2])
    /\ Len(ToastsTitled("Analysis Warning")) = 1
    /\ analysisResults.overview.totalLessons = 1

\* C5: when the loop of a corpus run ends without any analysis, the run fails with the
\* error 'No files could be analyzed successfully': no summary is set, the store is
\* left as it was, and the run is not marked complete.
C5_NoSuccessFailsRun ==
    [][(pc = "analyzing" /\ pc' \in {"complete", "failed"} /\ fileAnalyses' = <<>>) =>
          /\ pc' = "failed"
          /\ isAnalyzing' = FALSE
          /\ toasts'[Len(toasts')] = toast("Analysis Failed", "destructive", "",
                                          "No files could be analyzed successfully", 0)
          /\ analysisResults' = analysisResults
          /\ analysisResults' = Null
          /\ store' = store
          /\ analysisComplete' = FALSE]_vars

\* C5 witness: a run of two files that both failed, on a page whose localStorage holds
\* the summary of an earlier run.
C5_Witness ==
    /\ pc = "failed"
    /\ Len(runFiles) = 2
    /\ fileAnalyses = <<>>
    /\ analysisResults = Null
    /\ ~analysisComplete
    /\ store.analysisData = Null
    /\ store.localStorage # Null


(***************************************************************************)
(* What the slide locator is expected to return                            *)
(***************************************************************************)
(* The classifier called again and again                                   *)
(***************************************************************************)

\* Most classifications of one session of the model.
MaxCalls == 3

\* The titles and texts classified repeatedly.
RepeatedTitles == {"", "Warm Up Activity", "My Holiday"}

RepeatedTexts == {"blue sky", "let's practice", "quiz and game show"}

\* A classifier whose best match is left over from the call before: a weaker match of
\* this call does not replace it.
classifyKeepingBestMatch(t, a) ==
    IF entry # "none" /\ labels.contentMatch.score > findBestPatternMatch(a).score
    THEN [activityType |-> labels.activityType,
          contentType  |-> determineContentType(a),
          contentMatch |-> labels.contentMatch]
    ELSE [activityType |-> categorizeActivityType(t, a),
          contentType  |-> determineContentType(a),
          contentMatch |-> findBestPatternMatch(a)]

\* What categorizeActivityType and determineContentType give for a title and a text.
classifyTitleAndText(t, a) ==
    [activityType |-> categorizeActivityType(t, a),
     contentType  |-> determineContentType(a),
     contentMatch |-> findBestPatternMatch(a)]

\* A caller classifies one more (title, allText) pair.
ClassifyAgain ==
    \E t \in RepeatedTitles, a \in RepeatedTexts :
        /\ Len(calls) < MaxCalls
        /\ slideData' = [slideNumber |-> 1, textElements |-> <<t>>, title |-> t,
                         allText |-> a, hasImages |-> FALSE, layoutHints |-> <<>>]
        /\ entry' = "pair"
        /\ labels' = classifyTitleAndText(t, a)
        /\ calls' = Append(calls, [title |-> t, allText |-> a,
                                   activityType |-> labels'.activityType,
                                   contentType  |-> labels'.contentType])
        /\ UNCHANGED <<lessonStructures, summary, lastIndex, rawSlide, slideDoc, analysedSlide,
                     lateVars, fileVars, corpusVars>>

ReclassifyNext == ClassifyAgain

SpecReclassify == ClassifierInit /\ [][ReclassifyNext]_vars

(***************************************************************************)
(* services/slideAnalysis.ts: extractSlideRawContent, slide after slide    *)
(***************************************************************************)

\* Most nodes of the XML of an extracted slide.
MaxNodes == 2

\* The pieces the XML of a slide is made of: each is the text one match of a pattern of
\* XML_PATTERNS covers, so a match starts and ends where a piece does.
XmlNodes ==
    {[kind |-> "text",  xml |-> "<a:t>Hello there</a:t>", text |-> "Hello there"],
     [kind |-> "title", text |-> "Welcome",
      xml  |-> "<p:sp><p:nvSpPr><p:nvPr><p:ph type=\"title\"/></p:nvPr></p:nvSpPr><a:t>Welcome</a:t></p:sp>"],
     [kind |-> "pic",    xml |-> "<p:pic>", text |-> ""],
     [kind |-> "bullet", xml |-> "<a:buChar char=\"-\"/>", text |-> ""],
     [kind |-> "table",  xml |-> "<a:tbl>", text |-> ""]}

\* The slides extracted: up to MaxNodes pieces in any order. The loop of
\* extractRawPowerPointContent skips a part whose XML is empty.
SlideXmls == UNION {[1..n -> XmlNodes] : n \in 1..MaxNodes}

\* The string a slide is.
xmlContentOf(xml) == join([k \in 1..Len(xml) |-> xml[k].xml], "")

\* The index in xmlContent at which piece k starts and the index after its end.
startOf(xml, k) == Len(xmlContentOf(SubSeq(xml, 1, k - 1)))

endOf(xml, k) == Len(xmlContentOf(SubSeq(xml, 1, k)))

\* RegExp.prototype.exec and test of a pattern with the g flag: the search starts at
\* lastIndex; a match leaves lastIndex at its end, a failure leaves it at 0.
regexExec(kind, xml, from) ==
    LET found(hits) ==
            IF hits = {} THEN [matched |-> FALSE, match |-> "", lastIndex |-> 0]
            ELSE [matched |-> TRUE, match |-> xml[minOf(hits)], lastIndex |-> endOf(xml, minOf(hits))]
    IN  found({k \in 1..Len(xml) : xml[k].kind = kind /\ startOf(xml, k) >= from})

\* [...xmlContent.matchAll(XML_PATTERNS.TEXT_CONTENT)]: the pattern is only ever cloned,
\* its lastIndex stays 0, and every text of the string is found.
matchAllText(xml) ==
    LET hasText(node) == node.kind \in {"text", "title"}
    IN  [k \in 1..Len(SelectSeq(xml, hasText)) |-> SelectSeq(xml, hasText)[k].text]

\* Method 2 of extractSlideRawContent: the pieces of XmlNodes have no formatted run.
plainTextElements(plainText) ==
    LET kept(index) == trim(plainText[index]) # "" /\ Len(trim(plainText[index])) > 1
        element(index) == [text      |-> trim(plainText[index]),
                           hierarchy |-> IF index = 1 THEN 1 ELSE 3,
                           isTitle   |-> index = 1]
    IN  flatten([index \in 1..Len(plainText) |-> IF kept(index) THEN <<element(index)>> ELSE <<>>])

extractSlideTitle(titlePlaceholder, textElements) ==
    LET isTitleElement(el) == el.isTitle \/ el.hierarchy = 1
    IN  IF titlePlaceholder.matched /\ trim(titlePlaceholder.match.text) # ""
        THEN trim(titlePlaceholder.match.text)
        ELSE IF Len(SelectSeq(textElements, isTitleElement)) > 0
             THEN SelectSeq(textElements, isTitleElement)[1].text
             ELSE IF Len(textElements) > 0 THEN textElements[1].text
                  ELSE ""

\* extractSlideRawContent with the patterns as the calls before left them: the
\* RawSlideContent returned and the lastIndex of each pattern afterwards.
extractSlideRawContent(xml, slideNumber, patterns) ==
    LET content(textElements, titlePlaceholder, images, bullets, table) ==
            [rawSlide |->
                [slideNumber  |-> slideNumber,
                 xmlContent   |-> xml,
                 textElements |-> textElements,
                 title        |-> extractSlideTitle(titlePlaceholder, textElements),
                 allText      |-> trim(join([k \in 1..Len(textElements) |->
                                                toLowerCase(textElements[k].text) \o " "], "")),
                 hasImages    |-> images.matched,
                 hasShapes    |-> \E k \in 1..Len(xml) : xml[k].kind = "title",
                 layoutHints  |-> (IF images.matched THEN <<"images">> ELSE <<>>)
                                  \o (IF bullets.matched THEN <<"bullets">> ELSE <<>>)
                                  \o (IF table.matched THEN <<"table">> ELSE <<>>)
                                  \o (IF Len(textElements) > 5 THEN <<"text-heavy">> ELSE <<>>)],
             lastIndex |->
                [TITLE_SHAPE     |-> titlePlaceholder.lastIndex,
                 IMAGE_REFERENCE |-> images.lastIndex,
                 BULLET_POINTS   |-> bullets.lastIndex,
                 TABLE_STRUCTURE |-> table.lastIndex]]
    IN  content(plainTextElements(matchAllText(xml)),
                regexExec("title", xml, patterns.TITLE_SHAPE),
                regexExec("pic", xml, patterns.IMAGE_REFERENCE),
                regexExec("bullet", xml, patterns.BULLET_POINTS),
                regexExec("table", xml, patterns.TABLE_STRUCTURE))

\* The loop of extractRawPowerPointContent extracts one more slide.
ExtractSlide ==
    \E xml \in SlideXmls, slideNumber \in 1..MaxSlideNumber :
        \E extracted \in {extractSlideRawContent(xml, slideNumber, lastIndex)} :
            /\ rawSlide' = extracted.rawSlide
            /\ lastIndex' = extracted.lastIndex
            /\ UNCHANGED <<lessonStructures, summary, calls, slideDoc, analysedSlide, lateVars,
                         classifierVars, fileVars, corpusVars>>

RawNext == ExtractSlide

SpecRaw == ClassifierInit /\ [][RawNext]_vars

(***************************************************************************)
(* analyzeSlideContent applied to one slide                                *)
(***************************************************************************)

\* A slide of a title placeholder and one body text.
titledSlide(t, a) ==
    [bgColor |-> "",
     nodes   |-> <<shape("title", 0, <<<<textRun(t, 4400, "Calibri")>>>>),
                   shape("body", 1, <<<<textRun(a, 1800, "")>>>>)>>]

\* Texts with the word 'reading': with the copyright line of the branded decks, with
\* another activity beside it, and with a copyright line of another origin.
CopyrightTexts == {"reading: copyright lessonspeak",
                   "Reading and writing. Copyright LessonSpeak",
                   "reading: all rights reserved, copyright"}

\* The slides analysed one by one: every title of the model over every text.
TitledSlides == {titledSlide(t, a) : t \in Titles, a \in Texts \cup CopyrightTexts}

\* analyzePowerPointFile hands the document of a slide part to analyzeSlideContent.
AnalyzeSlide ==
    \E slideNumber \in 1..MaxSlideNumber :
        /\ analysedSlide = NotAnalysed
        /\ analysedSlide' = analyzeSlideContent(slideDoc, slideNumber)
        /\ UNCHANGED <<slideDoc, lessonStructures, summary, calls, lastIndex, rawSlide, lateVars,
                       classifierVars, fileVars, corpusVars>>

SlideInit ==
    /\ slideDoc \in TitledSlides
    /\ analysedSlide = NotAnalysed
    /\ lessonStructures = <<>>
    /\ summary = NotAggregated
    /\ calls = <<>>
    /\ lastIndex = PatternsAsLoaded
    /\ rawSlide = NoRawSlide
    /\ LateIdle
    /\ ClassifierIdle
    /\ FileIdle
    /\ CorpusIdle

SlideNext == AnalyzeSlide

SpecSlide == SlideInit /\ [][SlideNext]_vars

(***************************************************************************)
(* analyzePedagogicalPatterns applied to the slides of one file            *)
(***************************************************************************)

\* Most slides of a file handed to analyzePedagogicalPatterns.
MaxSlides == 3

\* Slides by their labels: both defaults, an activity, a content type without an
\* activity, and both.
LabelledSlides ==
    {sampleSlide("Standard Layout", <<>>, "Content Slide", "Main Content"),
     sampleSlide("Standard Layout", <<>>, "Warm-up", "Main Content"),
     sampleSlide("Standard Layout", <<>>, "Content Slide", "Learning Objectives"),
     sampleSlide("Standard Layout", <<>>, "Vocabulary", "Vocabulary Introduction")}

\* analyzePowerPointFile hands its slides to analyzePedagogicalPatterns.
AnalyzePatterns ==
    /\ pedagogicalPatterns = NotAnalysed
    /\ pedagogicalPatterns' = analyzePedagogicalPatterns(lessonSlides)
    /\ UNCHANGED <<lessonSlides, lessonStructures, summary, calls, lastIndex, rawSlide, slideDoc,
                   analysedSlide, titleVars, storeVars, lessonVars, classifierVars, fileVars,
                   corpusVars>>

PatternsInit ==
    /\ lessonSlides \in UNION {[1..n -> LabelledSlides] : n \in 0..MaxSlides}
    /\ pedagogicalPatterns = NotAnalysed
    /\ lessonStructures = <<>>
    /\ summary = NotAggregated
    /\ calls = <<>>
    /\ lastIndex = PatternsAsLoaded
    /\ rawSlide = NoRawSlide
    /\ slideDoc = NoSlideDocument
    /\ analysedSlide = NotAnalysed
    /\ chosenTitle = NoTitle
    /\ recentData = Null
    /\ LessonIdle
    /\ ClassifierIdle
    /\ FileIdle
    /\ CorpusIdle

PatternsNext == AnalyzePatterns

SpecPatterns == PatternsInit /\ [][PatternsNext]_vars

(***************************************************************************)
(* analyzeSlideContent: the title of a slide without a title placeholder   *)
(***************************************************************************)

\* Most shapes of a slide whose title is chosen by the heuristic.
MaxShapes == 3

\* Font sizes in hundredths of a point and vertical offsets of the shapes.
ShapeSizes == {2000, 2200, 2400}

ShapeOffsets == {100, 200, 300}

ShapeTexts == <<"First text", "Second text", "Third text", "Fourth text">>

\* A slide of n shapes without placeholder, one run each; the text tells the shapes apart.
untitledSlide(sizes, offsets) ==
    [bgColor |-> "",
     nodes   |-> [k \in 1..Len(sizes) |->
                    shape("", offsets[k], <<<<textRun(ShapeTexts[k], sizes[k], "")>>>>)]]

UntitledSlides ==
    UNION {{untitledSlide(sizes, offsets) : sizes \in [1..n -> ShapeSizes], offsets \in [1..n -> ShapeOffsets]}
           : n \in 1..MaxShapes}

\* analyzeSlideContent settles the title of the slide.
ChooseTitle ==
    /\ chosenTitle = NoTitle
    /\ chosenTitle' = [title |-> slideTitleOf(slideDoc)]
    /\ UNCHANGED <<slideDoc, analysedSlide, lessonStructures, summary, calls, lastIndex, rawSlide,
                   patternVars, storeVars, lessonVars, classifierVars, fileVars, corpusVars>>

TitleInit ==
    /\ slideDoc \in UntitledSlides
    /\ analysedSlide = NotAnalysed
    /\ chosenTitle = NoTitle
    /\ recentData = Null
    /\ LessonIdle
    /\ PatternsIdle
    /\ lessonStructures = <<>>
    /\ summary = NotAggregated
    /\ calls = <<>>
    /\ lastIndex = PatternsAsLoaded
    /\ rawSlide = NoRawSlide
    /\ ClassifierIdle
    /\ FileIdle
    /\ CorpusIdle

TitleNext == ChooseTitle

SpecTitle == TitleInit /\ [][TitleNext]_vars

(***************************************************************************)
(* services/analysisDataStore.ts: the store used on its own                *)
(***************************************************************************)

\* The data stored: the summaries of the one-file corpora of the model.
StoredData == {aggregateAnalysis(<<lesson>>, today) : lesson \in SampleLessons, today \in Dates}

\* The state of CorpusAnalyzer, which the store does not touch.
componentVars == <<uploadedFiles, isAnalyzing, analysisProgress, analysisComplete, analysisResults,
                   pc, runFiles, fileIndex, fileAnalyses, toasts, uploadToasts>>

othersThanStore == <<componentVars, classifierVars, fileVars, lessonStructures, summary, calls,
                     lastIndex, rawSlide, slideDoc, analysedSlide, patternVars, titleVars,
                     lessonVars>>

\* setAnalysisData(data); localStorage.setItem stores the item or throws.
SetAnalysisData ==
    \E data \in StoredData, setItemThrows \in BOOLEAN :
        /\ store' = setAnalysisData(store, data, setItemThrows)
        /\ recentData' = data
        /\ UNCHANGED othersThanStore

\* getAnalysisData(): what it returns is the analysisData of the store afterwards.
GetAnalysisData ==
    /\ store' = getAnalysisData(store)
    /\ UNCHANGED <<recentData, othersThanStore>>

ClearAnalysisData ==
    /\ store' = clearAnalysisData(store)
    /\ recentData' = Null
    /\ UNCHANGED othersThanStore

\* The page is loaded again: the store is constructed anew, localStorage stays.
ReloadStore ==
    /\ store' = [analysisData |-> Null, localStorage |-> store.localStorage]
    /\ UNCHANGED <<recentData, othersThanStore>>

StoreNext == SetAnalysisData \/ GetAnalysisData \/ ClearAnalysisData \/ ReloadStore

SpecStore == Init /\ [][StoreNext]_vars

(***************************************************************************)
(* services/aiService.ts: generateLessonContent                            *)
(***************************************************************************)

\* A parameter that was left out.
Undefined == [undefined |-> TRUE]

\* The state the settings panel starts with.
DefaultSettings ==
    [targetAudience |-> "intermediate", lessonDuration |-> 45, difficultyLevel |-> "intermediate",
     focusAreas |-> <<"reading", "vocabulary">>, includeVisuals |-> TRUE, activityIntensity |-> 3,
     assessmentStyle |-> "formative", vocabularyCount |-> 8, readingLength |-> "medium",
     interactionStyle |-> "collaborative"]

\* Settings moved to the low end of the panel.
ShortSettings ==
    [targetAudience |-> "beginner", lessonDuration |-> 15, difficultyLevel |-> "basic",
     focusAreas |-> <<>>, includeVisuals |-> FALSE, activityIntensity |-> 1,
     assessmentStyle |-> "peer", vocabularyCount |-> 3, readingLength |-> "short",
     interactionStyle |-> "individual"]

LessonSettings == {Undefined, DefaultSettings, ShortSettings}

Topics == {"Space", "City Life"}

\* apiKey: left out, empty, or a key.
ApiKeys == {[given |-> FALSE], [given |-> TRUE, value |-> ""], [given |-> TRUE, value |-> "sk-test"]}

\* The params generateLessonContent is called with.
LessonParams ==
    [topic : Topics, analysisData : {Null} \cup StoredData, lessonSettings : LessonSettings,
     apiKey : ApiKeys]

\* !apiKey
noApiKey(apiKey) == ~apiKey.given \/ apiKey.value = ""

\* The words of the mock vocabulary.
MockWords ==
    <<"methodology", "analysis", "engagement", "authentic", "collaborative", "scaffolded",
      "comprehensive", "systematic">>

\* settings?.field || fallback, for a number and for a string.
settingOr(settings, field, fallback) ==
    IF settings = Undefined THEN fallback
    ELSE IF settings[field] = 0 THEN fallback
    ELSE settings[field]

textSettingOr(settings, field, fallback) ==
    IF settings = Undefined THEN fallback
    ELSE IF settings[field] = "" THEN fallback
    ELSE settings[field]

\* The lesson built without the API.
generateMockLesson(topic, analysisData, settings) ==
    LET duration         == settingOr(settings, "lessonDuration", 45)
        vocabCount       == settingOr(settings, "vocabularyCount", 8)
        difficulty       == textSettingOr(settings, "difficultyLevel", "intermediate")
        interactionStyle == textSettingOr(settings, "interactionStyle", "collaborative")
        activityTypes    == IF analysisData = Null
                            THEN <<"Interactive Learning", "Group Discussion">>
                            ELSE analysisData.pedagogicalInsights.preferredActivityTypes
        teachingStyle    == IF analysisData = Null THEN "Interactive and engaging"
                            ELSE analysisData.pedagogicalInsights.teachingStyle
        readingLength    == textSettingOr(settings, "readingLength", "medium")
        intensity        == settingOr(settings, "activityIntensity", 3)
        used             == slice(activityTypes, 0, intensity)
    IN  [title |-> "Exploring " \o topic \o ": A " \o ToString(duration) \o "-Minute "
                       \o difficulty \o " Lesson",
         introduction |-> "Welcome to today's " \o ToString(duration) \o "-minute lesson on "
                       \o topic \o ". Based on your analyzed teaching methodology, this lesson incorporates "
                       \o join(activityTypes, " and ") \o " to ensure maximum engagement. We'll follow your established "
                       \o toLowerCase(teachingStyle) \o " approach throughout.",
         readingPassage |-> [length |-> readingLength, topic |-> topic,
                             teachingStyle |-> toLowerCase(teachingStyle)],
         vocabulary |-> [i \in 1..vocabCount |-> MockWords[((i - 1) % Len(MockWords)) + 1]],
         comprehensionQuestions |->
             <<"How does " \o topic \o " relate to your daily experience?",
               "What are the main concepts we explored about " \o topic \o "?",
               "How do the teaching methods used here compare to your expectations?",
               "What connections can you make between " \o topic \o " and other subjects?">>,
         discussionQuestions |->
             <<"In your opinion, what is the most important aspect of " \o topic \o "?",
               "How might " \o topic \o " be relevant in your future career or studies?",
               "What questions do you still have about " \o topic \o "?",
               "How can we apply what we learned about " \o topic \o " in real situations?">>,
         activities |-> [k \in 1..Len(used) |->
                            [type |-> used[k],
                             content |-> used[k] \o " activity focused on " \o topic \o " concepts",
                             instructions |-> "Implement this " \o toLowerCase(used[k])
                                 \o " following your established " \o interactionStyle
                                 \o " methodology. Duration: " \o ToString(floorDiv(duration, intensity))
                                 \o " minutes."]],
         conclusion |-> "Today's exploration of " \o topic \o " demonstrates how personalized lesson generation can maintain your teaching style while delivering fresh content. The "
                       \o ToString(duration) \o "-minute structure and " \o difficulty
                       \o " level match your specified preferences, ensuring consistency with your pedagogical approach."]

\* The texts a completion may hold in message.content.
LessonJson ==
    "{\"title\":\"Space\",\"introduction\":\"Hello\",\"readingPassage\":\"Far away\",\"vocabulary\":[],\"comprehensionQuestions\":[],\"discussionQuestions\":[],\"activities\":[],\"conclusion\":\"Bye\"}"

ProseJson == "Here is the lesson: {\"title\":\"Space\"}"

WrappedJson == "{\"lesson\":{\"title\":\"Space\"}}"

NullJson == "null"

Contents == {LessonJson, ProseJson, WrappedJson, NullJson, ""}

\* JSON.parse for the texts of Contents: the value, or the SyntaxError it throws.
jsonParse(text) ==
    CASE text = LessonJson ->
             [ok |-> TRUE,
              value |-> [title |-> "Space", introduction |-> "Hello", readingPassage |-> "Far away",
                         vocabulary |-> <<>>, comprehensionQuestions |-> <<>>,
                         discussionQuestions |-> <<>>, activities |-> <<>>, conclusion |-> "Bye"]]
      [] text = WrappedJson -> [ok |-> TRUE, value |-> [lesson |-> [title |-> "Space"]]]
      [] text = NullJson    -> [ok |-> TRUE, value |-> Null]
      [] OTHER              -> [ok |-> FALSE, error |-> "SyntaxError: Unexpected token"]

\* What response.json() gives for a response of the API.
Completions ==
    {[choices |-> <<[message |-> [role |-> "assistant", content |-> c]]>>] : c \in Contents}
    \cup {[choices |-> <<[message |-> [role |-> "assistant"]]>>],
          [choices |-> <<[finish_reason |-> "length"]>>],
          [choices |-> <<>>],
          [error |-> [message |-> "Rate limit reached"]]}

\* How the request ends: fetch rejects, or it resolves with a response whose status is
\* OK or not and whose body is JSON or not.
Responses ==
    {[rejects |-> TRUE]}
    \cup {[rejects |-> FALSE, ok |-> FALSE, status |-> st, isJson |-> FALSE] : st \in {401, 500}}
    \cup {[rejects |-> FALSE, ok |-> TRUE, status |-> 200, isJson |-> FALSE]}
    \cup {[rejects |-> FALSE, ok |-> TRUE, status |-> 200, isJson |-> TRUE, data |-> d] :
              d \in Completions}

threw(error) == [threw |-> TRUE, error |-> error]

returned(value) == [threw |-> FALSE, value |-> value]

\* data.choices[0]?.message?.content, or Undefined.
contentOf(data) ==
    IF Len(data.choices) = 0 THEN Undefined
    ELSE IF "message" \notin DOMAIN data.choices[1] THEN Undefined
    ELSE IF "content" \notin DOMAIN data.choices[1].message THEN Undefined
    ELSE [text |-> data.choices[1].message.content]

\* The try block once the request has ended: what it returns or throws.
tryBlock(response) ==
    IF response.rejects THEN threw("TypeError: Failed to fetch")
    ELSE IF ~response.ok THEN threw("OpenAI API error: " \o ToString(response.status))
    ELSE IF ~response.isJson THEN threw("SyntaxError: Unexpected token")
    ELSE IF "choices" \notin DOMAIN response.data
         THEN threw("TypeError: Cannot read properties of undefined")
    ELSE IF contentOf(response.data) = Undefined THEN threw("No content received from OpenAI")
    ELSE IF contentOf(response.data).text = "" THEN threw("No content received from OpenAI")
    ELSE IF jsonParse(contentOf(response.data).text).ok
         THEN returned(jsonParse(contentOf(response.data).text).value)
    ELSE threw(jsonParse(contentOf(response.data).text).error)

resolved(value) == [state |-> "resolved", value |-> value]

\* generateLessonContent from the end of the request: the value of the try block, or
\* the mock lesson of the catch block.
settleAfterFetch(params, response) ==
    IF tryBlock(response).threw
    THEN resolved(generateMockLesson(params.topic, params.analysisData, params.lessonSettings))
    ELSE resolved(tryBlock(response).value)

\* generateLessonContent is called: without a key it returns the mock lesson, with a key
\* it builds the prompt and sends the request.
GenerateLessonContent ==
    /\ lessonPromise.state # "pending"
    /\ apiResponse' = NoResponse
    /\ \E params \in LessonParams :
           /\ lessonParams' = params
           /\ IF noApiKey(params.apiKey)
              THEN /\ fetchCount' = 0
                   /\ lessonPromise' = resolved(generateMockLesson(params.topic, params.analysisData,
                                                                   params.lessonSettings))
              ELSE /\ fetchCount' = 1
                   /\ lessonPromise' = [state |-> "pending"]
    /\ UNCHANGED <<patternVars, titleVars, storeVars, lessonStructures, summary, calls, lastIndex,
                   rawSlide, slideDoc, analysedSlide, classifierVars, fileVars, corpusVars>>

\* The request ends and generateLessonContent runs to its end.
RequestEnds ==
    /\ lessonPromise.state = "pending"
    /\ \E response \in Responses :
           /\ apiResponse' = response
           /\ lessonPromise' = settleAfterFetch(lessonParams, response)
    /\ UNCHANGED <<lessonParams, fetchCount, patternVars, titleVars, storeVars, lessonStructures,
                   summary, calls, lastIndex, rawSlide, slideDoc, analysedSlide, classifierVars,
                   fileVars, corpusVars>>

LessonNext == GenerateLessonContent \/ RequestEnds

SpecLesson == Init /\ [][LessonNext]_vars


(***************************************************************************)

\* analyzePowerPointFile has run on a file it could open and that has its slides folder.
FolderListed == FileAnalysed /\ pptFile.opens /\ pptFile.hasSlidesFolder

\* The place of the entry of that name in the listing of the folder.
PlaceInFolder(name) == CHOOSE k \in 1..Len(pptFile.entries) : pptFile.entries[k].name = name

\* The names of the folder, as listed.
FolderNames == [k \in 1..Len(pptFile.entries) |-> pptFile.entries[k].name]

\* C11: the locator returns the parts in ascending order of the integer found in the
\* name, a name without digits counting as 0, and parts with the same number keep the
\* order the folder lists them in; every part is returned once. slide10.xml, slide2.xml,
\* slide1.xml come out as slide1.xml, slide2.xml, slide10.xml.
C11_NumericStableOrder ==
    FolderListed =>
        /\ \A i, j \in 1..Len(slideFiles) :
               i < j => /\ slideNumberOfName(slideFiles[i]) <= slideNumberOfName(slideFiles[j])
                        /\ slideFiles[i] # slideFiles[j]
                        /\ slideNumberOfName(slideFiles[i]) = slideNumberOfName(slideFiles[j])
                               => PlaceInFolder(slideFiles[i]) < PlaceInFolder(slideFiles[j])
        /\ \A i \in 1..Len(slideFiles) : contains(FolderNames, slideFiles[i])
        /\ slideNumberOfName("slide.xml") = 0
        /\ slideNumberOfName("slide10.xml") = 10
        /\ FolderNames = <<"slide10.xml", "slide2.xml", "slide1.xml">>
               => slideFiles = <<"slide1.xml", "slide2.xml", "slide10.xml">>

\* C11 witness: the folder of the example, located in numeric order.
C11_Witness ==
    /\ FolderListed
    /\ FolderNames = <<"slide10.xml", "slide2.xml", "slide1.xml">>
    /\ slideFiles = <<"slide1.xml", "slide2.xml", "slide10.xml">>

\* The names of the entries of the folder that are files and satisfy test, as a set.
NamesWhere(test(_)) ==
    {pptFile.entries[k].name : k \in {i \in 1..Len(pptFile.entries) :
                                          ~pptFile.entries[i].dir /\ test(pptFile.entries[i].name)}}

\* The names located, as a set.
LocatedNames == {slideFiles[k] : k \in 1..Len(slideFiles)}

NamedSlideNumber(name) == matchesSlideNumberXml(name)

NamedLikeSlide(name) == includes(name, "slide") /\ endsWith(name, ".xml")

NamedXml(name) == endsWith(name, ".xml")

\* C12 as stated: three tiers. With an entry named slide<digits>.xml exactly those
\* entries are returned; failing any, the .xml entries with 'slide' in the name; failing
\* any of those, every .xml entry.
C12_ThreeTiers ==
    FolderListed =>
        LocatedNames =
            IF NamesWhere(NamedSlideNumber) # {} THEN NamesWhere(NamedSlideNumber)
            ELSE IF NamesWhere(NamedLikeSlide) # {} THEN NamesWhere(NamedLikeSlide)
            ELSE NamesWhere(NamedXml)

\* C12 amended: two tiers. The .xml entries with 'slide' in the name are returned, those
\* named slide<digits>.xml among them; only failing any of these, every .xml entry.
C12_TwoTiers ==
    FolderListed =>
        /\ LocatedNames =
               IF NamesWhere(NamedLikeSlide) # {} THEN NamesWhere(NamedLikeSlide)
               ELSE NamesWhere(NamedXml)
        /\ NamesWhere(NamedSlideNumber) \subseteq NamesWhere(NamedLikeSlide)
        /\ Len(slideFiles) = Cardinality(LocatedNames)

\* C12 witness: a part named slide<digits>.xml is listed next to slide.xml, and both are
\* returned.
C12_Witness ==
    /\ FolderListed
    /\ FolderNames = <<"slide.xml", "notes.xml", "slide1.xml">>
    /\ slideFiles = <<"slide.xml", "slide1.xml">>


(***************************************************************************)
(* What aggregateAnalysis is expected to return                            *)
(***************************************************************************)

\* aggregateAnalysis has returned for lessonStructures.
Aggregated == summary # NotAggregated

\* The slide counts of the LessonStructures handed over.
SlideCounts == [k \in 1..Len(lessonStructures) |-> lessonStructures[k].totalSlides]

\* The slides of all LessonStructures together, counted one by one.
SlidesInAll ==
    Cardinality({<<k, i>> \in (1..Len(lessonStructures)) \X (1..8) : i <= SlideCounts[k]})

\* a is total / n rounded to the nearest integer, a half rounded up.
IsRounded(a, total, n) == 2 * a * n - n <= 2 * total /\ 2 * total < 2 * a * n + n

\* C13: totalLessons is the number of LessonStructures, totalSlides the sum of their
\* totalSlides, and averageSlidesPerLesson their ratio rounded to the nearest integer, or
\* 0 without slides. The slide counts 5, 8, 3 give 16 slides and an average of 5.
C13_OverviewCounts ==
    Aggregated =>
        /\ summary.overview.totalLessons = Len(lessonStructures)
        /\ summary.overview.totalSlides = SlidesInAll
        /\ IF SlidesInAll = 0 THEN summary.overview.averageSlidesPerLesson = 0
           ELSE IsRounded(summary.overview.averageSlidesPerLesson, SlidesInAll, Len(lessonStructures))
        /\ SlideCounts = <<5, 8, 3>> =>
               /\ summary.overview.totalSlides = 16
               /\ summary.overview.averageSlidesPerLesson = 5

\* C13 witness: a corpus of 5 and 8 slides, whose average of 6.5 is reported as 7.
C13_Witness ==
    /\ Aggregated
    /\ SlideCounts = <<5, 8>>
    /\ summary.overview.totalSlides = 13
    /\ summary.overview.averageSlidesPerLesson = 7

\* The LessonStructures handed over, in every order.
Reorderings ==
    {[k \in 1..Len(lessonStructures) |-> lessonStructures[p[k]]] :
        p \in {q \in [1..Len(lessonStructures) -> 1..Len(lessonStructures)] :
                  \A i, j \in 1..Len(lessonStructures) : i # j => q[i] # q[j]}}

\* The elements of a sequence, as a set.
ElementsOf(seq) == {seq[k] : k \in 1..Len(seq)}

\* C14: aggregateAnalysis is independent of the order of its input: for the same
\* LessonStructures in any order it returns the same counters, the same preferredFonts,
\* the same commonLayouts list, the same set of preferredActivityTypes and the same
\* lessonStructurePattern.
C14_OrderIndependent ==
    Aggregated =>
        \A reordered \in Reorderings :
            LET other == aggregateAnalysis(reordered, summary.overview.analysisDate)
            IN  /\ other.overview = summary.overview
                /\ other.designSystem.preferredFonts = summary.designSystem.preferredFonts
                /\ other.designSystem.commonLayouts = summary.designSystem.commonLayouts
                /\ ElementsOf(other.pedagogicalInsights.preferredActivityTypes)
                       = ElementsOf(summary.pedagogicalInsights.preferredActivityTypes)
                /\ other.pedagogicalInsights.lessonStructurePattern
                       = summary.pedagogicalInsights.lessonStructurePattern


(***************************************************************************)
(* What the labels of a LessonStructure are expected to be                 *)
(***************************************************************************)

\* C15: pedagogicalPatterns.activityTypes of the LessonStructure of a file holds every
\* activity type given to a slide of the file other than the default, each once, and
\* never the default 'Content Slide'.
C15_ActivityTypesNonDefault ==
    (FileAnalysed /\ pptOutcome.ok) =>
        LET activityTypes == pptOutcome.value.pedagogicalPatterns.activityTypes
        IN  /\ ~contains(activityTypes, "Content Slide")
            /\ \A i, j \in 1..Len(activityTypes) : i # j => activityTypes[i] # activityTypes[j]
            /\ \A k \in 1..Len(pptOutcome.value.lessonFlow) :
                   pptOutcome.value.lessonFlow[k] # "Content Slide"
                       => contains(activityTypes, pptOutcome.value.lessonFlow[k])


(***************************************************************************)
(* The colors of the corpus                                                *)
(***************************************************************************)

\* The colors of the design system of one LessonStructure.
LessonColors(lesson) ==
    ElementsOf(lesson.designSystem.primaryColors) \cup ElementsOf(lesson.designSystem.secondaryColors)

\* C16: the designSystem of the CorpusSummary has the field dominantColors, the field the
\* result view and the generation prompt read, and it holds the colors of the design
\* systems of the input LessonStructures, each once.
C16_DominantColors ==
    Aggregated =>
        /\ "dominantColors" \in DOMAIN summary.designSystem
        /\ \A k \in 1..Len(lessonStructures) :
               LessonColors(lessonStructures[k]) \subseteq ElementsOf(summary.designSystem.dominantColors)
        /\ \A i, j \in 1..Len(summary.designSystem.dominantColors) :
               i # j => summary.designSystem.dominantColors[i] # summary.designSystem.dominantColors[j]


(***************************************************************************)
(* The fonts of the corpus                                                 *)
(***************************************************************************)

\* The fontFamilies of the input LessonStructures, one after the other.
InputFonts == flatten([k \in 1..Len(lessonStructures) |-> lessonStructures[k].designSystem.fontFamilies])

IsDefaultFont(font) == font = "Arial" \/ font = ""

NonDefaultFonts == {font \in ElementsOf(InputFonts) : ~IsDefaultFont(font)}

\* Where a font of the input first occurs.
FirstSeen(font) == CHOOSE k \in 1..Len(InputFonts) :
                       InputFonts[k] = font /\ \A j \in 1..(k - 1) : InputFonts[j] # font

PreferredFonts == summary.designSystem.preferredFonts

RawExtracted == rawSlide # NoRawSlide

HasNode(kind) == \E k \in 1..Len(rawSlide.xmlContent) : rawSlide.xmlContent[k].kind = kind

\* The text of the first title placeholder shape of the XML.
TitleShapeText ==
    rawSlide.xmlContent[minOf({k \in 1..Len(rawSlide.xmlContent) : rawSlide.xmlContent[k].kind = "title"})].text

\* C19: whatever slides were extracted before, the RawSlideContent of a slide has
\* hasImages exactly when its XML has an image reference, the hints 'bullets' and
\* 'table' exactly when its XML has such nodes, and the text of its title placeholder
\* shape, when it has one, as title.
C19_DependsOnlyOnXml ==
    RawExtracted =>
        /\ rawSlide.hasImages <=> HasNode("pic")
        /\ contains(rawSlide.layoutHints, "images") <=> HasNode("pic")
        /\ contains(rawSlide.layoutHints, "bullets") <=> HasNode("bullet")
        /\ contains(rawSlide.layoutHints, "table") <=> HasNode("table")
        /\ HasNode("title") => rawSlide.title = TitleShapeText


(***************************************************************************)
(* The activity label of a slide                                           *)
(***************************************************************************)

\* The labels a slide may carry: the activities of the keyword table and the default.
ActivityLabels == {ACTIVITY_KEYWORDS[k][2] : k \in 1..Len(ACTIVITY_KEYWORDS)} \cup {"Content Slide"}

\* C20: a slide analysed by analyzeSlideContent carries exactly one activity label, also
\* when its title and text hold the keywords of several activities.
C20_OneActivityLabel ==
    analysedSlide # NotAnalysed => analysedSlide.activityType \in ActivityLabels


(***************************************************************************)
(* The progression of a lesson                                             *)
(***************************************************************************)

PatternsAnalysed == pedagogicalPatterns # NotAnalysed

\* C21: contentProgression has one entry per slide, in slide order: the activityType of
\* the slide unless it is 'Content Slide', else its contentType unless it is
\* 'Main Content', else 'Introduction' for the first slide, 'Conclusion' for the last
\* and 'Content Development' for the others.
C21_ProgressionPerSlide ==
    PatternsAnalysed =>
        /\ Len(pedagogicalPatterns.contentProgression) = Len(lessonSlides)
        /\ \A k \in 1..Len(lessonSlides) :
               pedagogicalPatterns.contentProgression[k] =
                   CASE lessonSlides[k].activityType # "Content Slide" -> lessonSlides[k].activityType
                     [] /\ lessonSlides[k].activityType = "Content Slide"
                        /\ lessonSlides[k].contentType # "Main Content" -> lessonSlides[k].contentType
                     [] /\ lessonSlides[k].activityType = "Content Slide"
                        /\ lessonSlides[k].contentType = "Main Content"
                        /\ k = 1 -> "Introduction"
                     [] /\ lessonSlides[k].activityType = "Content Slide"
                        /\ lessonSlides[k].contentType = "Main Content"
                        /\ k # 1 /\ k = Len(lessonSlides) -> "Conclusion"
                     [] OTHER -> "Content Development"

\* A file of three slides with default labels only has been analysed.
C21_Witness ==
    /\ PatternsAnalysed
    /\ Len(lessonSlides) = 3
    /\ \A k \in 1..3 : lessonSlides[k].activityType = "Content Slide"
    /\ lessonSlides[1].contentType = "Main Content"
    /\ lessonSlides[2].contentType = "Main Content"
    /\ lessonSlides[3].contentType = "Main Content"
    /\ pedagogicalPatterns.contentProgression = <<"Introduction", "Content Development", "Conclusion">>


(***************************************************************************)
(* The title the heuristic chooses                                         *)
(***************************************************************************)

TitleChosen == chosenTitle # NoTitle

Candidates == ElementsOf(candidateTextsOf(slideDoc))

LargestCandidates == {c \in Candidates : \A d \in Candidates : d.fontSize <= c.fontSize}

\* C22: on a slide without title placeholder text the title is the text of a candidate of
\* the largest font size and, among those of that size, of the smallest vertical offset.
C22_LargestHighestCandidate ==
    (TitleChosen /\ titleFromPlaceholders(slideDoc) = "" /\ Candidates # {}) =>
        \E c \in LargestCandidates :
            /\ c.text = chosenTitle.title
            /\ \A d \in LargestCandidates : c.topPosition <= d.topPosition


(***************************************************************************)
(* The title as the activity type                                          *)
(***************************************************************************)

\* No strategy of categorizeActivityFromRawSlide matches the slide classified.
NoStrategyMatches ==
    /\ entry = "raw"
    /\ ~TitleHasPhrase
    /\ ~HasKeyword(CleanTitle)
    /\ ~HasKeyword(slideData.allText)
    /\ ~(hasHint(slideData.layoutHints, "bullets") /\ Len(slideData.textElements) > 3)
    /\ ~hasHint(slideData.layoutHints, "table")
    /\ ~(slideData.hasImages /\ Len(slideData.textElements) < 3)
    /\ ~hasHint(slideData.layoutHints, "text-heavy")
    /\ slideData.slideNumber # 1

\* C23: when no strategy matches, the activity type is the title with its first
\* character upper-cased if the title has more than 2 and fewer than 50 characters, and
\* 'Content Slide' otherwise.
C23_TitleAsActivityType ==
    NoStrategyMatches =>
        IF Len(slideData.title) > 2 /\ Len(slideData.title) < 50
        THEN /\ Len(labels.activityType) = Len(slideData.title)
             /\ SubSeq(labels.activityType, 2, Len(slideData.title))
                    = SubSeq(slideData.title, 2, Len(slideData.title))
             /\ SubSeq(labels.activityType, 1, 1) = upperChar(SubSeq(slideData.title, 1, 1))
             /\ slideData.title = "my day" => labels.activityType = "My day"
        ELSE labels.activityType = "Content Slide"

\* The title 'my day' has become the activity type 'My day'.
C23_Witness ==
    /\ NoStrategyMatches
    /\ slideData.title = "my day"
    /\ labels.activityType = "My day"


(***************************************************************************)
(* The layouts of the corpus                                               *)
(***************************************************************************)

\* How often the LessonStructures have counted a layout, all together.
SummedCount(layout) ==
    sumOf([k \in 1..Len(lessonStructures) |-> mapGetOrZero(lessonStructures[k].commonLayouts, layout)])

\* The layouts any LessonStructure has counted.
InputLayouts ==
    UNION {{lessonStructures[k].commonLayouts[i][1] : i \in 1..Len(lessonStructures[k].commonLayouts)}
           : k \in 1..Len(lessonStructures)}

CommonLayouts == summary.designSystem.commonLayouts

ListedLayouts == {CommonLayouts[i].layout : i \in 1..Len(CommonLayouts)}

\* a is an integer nearest to num / den.
IsNearest(a, num, den) == 2 * a * den - den <= 2 * num /\ 2 * num <= 2 * a * den + den

SlideAnalysed == slideDoc # NoSlideDocument /\ analysedSlide # NotAnalysed

\* The title and the text of the slide as the keyword search reads them.
CombinedText == toLowerCase(slideTitleOf(slideDoc) \o " " \o allTextOf(textElementsOf(slideDoc)))

IsCopyrightSlide == includes(CombinedText, "copyright") /\ includes(CombinedText, "lessonspeak")

\* A keyword of an activity other than 'Reading' occurs on the slide.
HasOtherActivity ==
    \E k \in 1..Len(ACTIVITY_KEYWORDS) :
        ACTIVITY_KEYWORDS[k][2] # "Reading" /\ includes(CombinedText, toLowerCase(ACTIVITY_KEYWORDS[k][1]))

\* C25: a slide whose title and text hold both 'copyright' and 'lessonspeak' never has
\* 'Reading' in its activityType; when no keyword of another activity occurs on it, its
\* activityType is 'Content Slide'.
C25_NoReadingOnCopyrightSlides ==
    (SlideAnalysed /\ IsCopyrightSlide) =>
        /\ ~includes(analysedSlide.activityType, "Reading")
        /\ ~HasOtherActivity => analysedSlide.activityType = "Content Slide"

\* A copyright slide whose only keyword is 'reading' has been analysed.
C25_Witness ==
    /\ SlideAnalysed
    /\ IsCopyrightSlide
    /\ includes(CombinedText, "reading")
    /\ ~HasOtherActivity
    /\ analysedSlide.activityType = "Content Slide"


(***************************************************************************)
(* What the store gives back                                               *)
(***************************************************************************)

\* C26: after any sequence of setAnalysisData, clearAnalysisData and page reloads,
\* getAnalysisData returns the data of the most recent setAnalysisData if no
\* clearAnalysisData followed it and null otherwise, and hasAnalysisData is true exactly
\* in the first case.
C26_StoreReturnsRecentData ==
    /\ getAnalysisData(store).analysisData = recentData
    /\ hasAnalysisData(store) <=> recentData # Null


(***************************************************************************)
(* What a failed run leaves alone                                          *)
(***************************************************************************)

\* The outcome of the last successful run, as the page and the store hold it.
RunOutcome == <<analysisResults, analysisComplete, store>>

\* A step that starts a run or goes on with one, and the step that ends a run in which
\* no file was analysed.
StepOfFailedRun ==
    \/ pc' = "analyzing"
    \/ pc = "analyzing" /\ pc' = "failed" /\ fileAnalyses' = <<>>

\* C27: a corpus run that fails because no file could be analysed leaves the outcome of
\* the run before untouched: no step of it, from its start to the failure, changes
\* analysisResults, analysisComplete or the contents of the store.
C27_FailedRunKeepsOutcome ==
    [][StepOfFailedRun => UNCHANGED RunOutcome]_vars

\* C27 witness: a run of one file has failed without any analysis while localStorage
\* holds the summary of one lesson that an earlier run stored.
C27_Witness ==
    /\ pc = "failed"
    /\ Len(runFiles) = 1
    /\ fileAnalyses = <<>>
    /\ ToastsTitled("Analysis Failed") # <<>>
    /\ store.localStorage # Null
    /\ JSONparse(store.localStorage).overview.totalLessons = 1


(***************************************************************************)
(* A run that was started ends                                             *)
(***************************************************************************)

\* C28: every corpus run that is started ends with isAnalyzing = false, whatever the
\* files do: from a state in which isAnalyzing is true, a state in which it is false
\* follows.
C28_RunEndsNotAnalyzing ==
    isAnalyzing ~> ~isAnalyzing

\* C28 witness: a run of two files has ended in the catch block after its first file
\* failed and its second was analysed, and isAnalyzing is false.
C28_Witness ==
    /\ pc = "failed"
    /\ ~isAnalyzing
    /\ Len(runFiles) = 2
    /\ fileIndex = 3
    /\ Fails(runFiles[1])
    /\ Succeeds(runFiles[2])
    /\ Len(fileAnalyses) = 1


(***************************************************************************)
(* What generateLessonContent resolves with                                *)
(***************************************************************************)

\* The fields of LessonContent.
LessonFields ==
    {"title", "introduction", "readingPassage", "vocabulary", "comprehensionQuestions",
     "discussionQuestions", "activities", "conclusion"}

IsLesson(value) == LessonFields \subseteq DOMAIN value

\* The mock lesson of the call.
MockOfCall ==
    generateMockLesson(lessonParams.topic, lessonParams.analysisData, lessonParams.lessonSettings)

\* The request of the call failed: a request error, a status that is not OK, a body
\* without content, or content that is not valid JSON.
HasContent(response) ==
    /\ response.isJson
    /\ "choices" \in DOMAIN response.data
    /\ Len(response.data.choices) > 0
    /\ "message" \in DOMAIN response.data.choices[1]
    /\ "content" \in DOMAIN response.data.choices[1].message
    /\ response.data.choices[1].message.content # ""

ApiPathFailed(response) ==
    \/ response.rejects
    \/ ~response.ok
    \/ ~HasContent(response)
    \/ ~jsonParse(response.data.choices[1].message.content).ok

\* C29: generateLessonContent always resolves with a lesson and never rejects: without
\* an API key its value is the mock lesson and no request was made, and with a key every
\* failure of the API path gives the mock lesson.
C29_AlwaysResolvesWithLesson ==
    /\ lessonPromise.state # "rejected"
    /\ lessonPromise.state = "resolved" =>
           /\ IsLesson(lessonPromise.value)
           /\ noApiKey(lessonParams.apiKey) =>
                  fetchCount = 0 /\ lessonPromise.value = MockOfCall
           /\ (~noApiKey(lessonParams.apiKey) /\ ApiPathFailed(apiResponse)) =>
                  lessonPromise.value = MockOfCall


(***************************************************************************)
(* What the result view reads from the summary                             *)
(***************************************************************************)

\* The result view is rendered: analysisComplete && analysisResults.
ResultViewShown == analysisComplete /\ analysisResults # Null

\* The fields the result view reads, as the object of the summary and its field.
ResultViewReads ==
    {<<"overview", "totalLessons">>, <<"overview", "totalSlides">>,
     <<"overview", "averageSlidesPerLesson">>,
     <<"confidence", "overallAccuracy">>, <<"confidence", "designConsistency">>,
     <<"confidence", "styleRecognition">>, <<"confidence", "pedagogicalAlignment">>,
     <<"designSystem", "dominantColors">>, <<"designSystem", "preferredFonts">>,
     <<"designSystem", "commonLayouts">>,
     <<"pedagogicalInsights", "teachingStyle">>,
     <<"pedagogicalInsights", "preferredActivityTypes">>,
     <<"pedagogicalInsights", "lessonStructurePattern">>}

\* The read finds its object and its field in the summary on display.
IsPresent(read) ==
    /\ read[1] \in DOMAIN analysisResults
    /\ read[2] \in DOMAIN analysisResults[read[1]]

\* C30: after a successful corpus run, every field the result view reads from the summary
\* it displays is present in it, so that showing the results dereferences no missing
\* field.
C30_ResultViewFieldsPresent ==
    ResultViewShown => \A read \in ResultViewReads : IsPresent(read)

=============================================================================
